---- MODULE Spec2Model ----
(***************************************************************************)
(* Model of pyquil's operator estimation: the TPB grouper                  *)
(* (construct_tpb_graph / group_experiments) and the lazy estimator        *)
(* (measure_observables) of src/pyquil/operator_estimation.py.             *)
(***************************************************************************)
EXTENDS Integers, Sequences, FiniteSets, TLC

\* ------------------------------------------------------------------------
\* Bounds
\* ------------------------------------------------------------------------
\* largest number of groups of a suite handed to measure_observables; for
\* the suites that are constructed and serialized, also the largest group
MaxGroups == 2
\* largest n_shots handed to measure_observables
MaxShots == 2
\* largest number of Experiments of a flat suite handed to group_experiments
MaxFlat == 4

\* the largest qubit index a rotation is looked up for
MaxQubitIndex == 7

\* ping_time and status_time of wait_for_job, in time units, are at most
\* MaxTime; a job is found not done at most MaxPolls times
MaxTime == 3

MaxPolls == 3

\* ------------------------------------------------------------------------
\* PauliTerm (pyquil.paulis): a letter per qubit, "I" standing for a qubit
\* the term does not hold, and a complex coefficient.
\* ------------------------------------------------------------------------
Qubits == {0, 1}

Letters == {"I", "X", "Y", "Z"}

PauliTerm(ops, re, im) == [ops |-> ops, coefficient |-> [re |-> re, im |-> im]]

\* sI(): the identity term
sI == PauliTerm([q \in Qubits |-> "I"], 1, 0)

\* sX(q), sY(q), sZ(q)
sOp(l, q) == PauliTerm([p \in Qubits |-> IF p = q THEN l ELSE "I"], 1, 0)

\* term * term on disjoint qubits, coefficient c * term
Times(t1, t2) == PauliTerm([q \in Qubits |-> IF t1.ops[q] # "I" THEN t1.ops[q] ELSE t2.ops[q]],
                           t1.coefficient.re * t2.coefficient.re, 0)

Scaled(re, im, t) == PauliTerm(t.ops, re, im)

\* PauliTerm.get_qubits()
get_qubits(t) == {q \in Qubits : t.ops[q] # "I"}

RECURSIVE SortedSeq(_)
SortedSeq(S) ==
    IF S = {} THEN <<>>
    ELSE LET m == CHOOSE x \in S : \A y \in S : x <= y
         IN <<m>> \o SortedSeq(S \ {m})

\* iteration over a PauliTerm: its (qubit, letter) pairs
TermItems(t) ==
    LET qs == SortedSeq(get_qubits(t))
    IN [k \in 1..Len(qs) |-> <<qs[k], t.ops[qs[k]]>>]

\* pyquil.paulis.is_identity
is_identity(t) == get_qubits(t) = {}

Experiment(in_op, out_op) == [in_operator |-> in_op, out_operator |-> out_op]

\* ------------------------------------------------------------------------
\* Basis rotations
\* ------------------------------------------------------------------------
Instr(gate, angle, q) == [gate |-> gate, angle |-> angle, qubit |-> q]

\* _local_pauli_eig_prep: [ok, prog]; ok = FALSE is the ValueError
local_pauli_eig_prep(op, idx) ==
    IF op = "X" THEN [ok |-> TRUE, prog |-> <<Instr("RY", "+pi/2", idx)>>]
    ELSE IF op = "Y" THEN [ok |-> TRUE, prog |-> <<Instr("RX", "-pi/2", idx)>>]
    ELSE IF op = "Z" THEN [ok |-> TRUE, prog |-> <<>>]
    ELSE [ok |-> FALSE, prog |-> <<>>]

\* _local_pauli_eig_meas: [ok, prog]; ok = FALSE is the ValueError
local_pauli_eig_meas(op, idx) ==
    IF op = "X" THEN [ok |-> TRUE, prog |-> <<Instr("RY", "-pi/2", idx)>>]
    ELSE IF op = "Y" THEN [ok |-> TRUE, prog |-> <<Instr("RX", "+pi/2", idx)>>]
    ELSE IF op = "Z" THEN [ok |-> TRUE, prog |-> <<>>]
    ELSE [ok |-> FALSE, prog |-> <<>>]

\* ------------------------------------------------------------------------
\* TPB compatibility (the grouper's pairwise test)
\* ------------------------------------------------------------------------
\* an identity is accepted in the first argument only
ops_diagonal_in_tpb_first_only(op_code1, op_code2) ==
    IF op_code1 = op_code2 THEN TRUE
    ELSE IF op_code1 = "I" THEN TRUE
    ELSE FALSE

\* only equal letters are compatible
ops_diagonal_in_tpb_equal_only(op_code1, op_code2) == op_code1 = op_code2

\* _ops_diagonal_in_tpb: the same letter, or one of them is I
ops_diagonal_in_tpb(op_code1, op_code2) ==
    IF op_code1 = op_code2 THEN TRUE
    ELSE IF op_code1 = "I" \/ op_code2 = "I" THEN TRUE
    ELSE FALSE

\* _all_qubits_diagonal_in_tpb
all_qubits_diagonal_in_tpb(op1, op2) ==
    LET all_qubits == get_qubits(op1) \cup get_qubits(op2)
    IN \A q \in all_qubits : ops_diagonal_in_tpb(op1.ops[q], op2.ops[q])

\* ------------------------------------------------------------------------
\* The estimator's per-group validation
\* ------------------------------------------------------------------------
\* the entries of an insertion-ordered dict, as a sequence of <<key, value>>
HasKey(mapping, idx) == \E k \in 1..Len(mapping) : mapping[k][1] = idx

Get(mapping, idx) == mapping[CHOOSE k \in 1..Len(mapping) : mapping[k][1] = idx][2]

\* the loop without its assertion: the first letter seen for a qubit is kept
RECURSIVE AddItemsNoAssert(_, _)
AddItemsNoAssert(m, items) ==
    IF items = <<>> THEN m
    ELSE LET idx == Head(items)[1]
             op_str == Head(items)[2]
         IN IF HasKey(m.mapping, idx)
            THEN AddItemsNoAssert(m, Tail(items))
            ELSE AddItemsNoAssert([ok |-> TRUE,
                                   mapping |-> Append(m.mapping, <<idx, op_str>>)],
                                  Tail(items))

\* the inner loop of _validate_all_diagonal_in_tpb over one term's items;
\* ok = FALSE is the failed assertion 'Improper grouping of operators'
RECURSIVE AddItems(_, _)
AddItems(m, items) ==
    IF ~m.ok \/ items = <<>> THEN m
    ELSE LET idx == Head(items)[1]
             op_str == Head(items)[2]
         IN IF HasKey(m.mapping, idx)
            THEN IF Get(m.mapping, idx) = op_str
                 THEN AddItems(m, Tail(items))
                 ELSE [ok |-> FALSE, mapping |-> m.mapping]
            ELSE AddItems([ok |-> TRUE, mapping |-> Append(m.mapping, <<idx, op_str>>)],
                          Tail(items))

RECURSIVE ValidateFrom(_, _)
ValidateFrom(m, ops) ==
    IF ~m.ok \/ ops = <<>> THEN m
    ELSE ValidateFrom(AddItems(m, TermItems(Head(ops))), Tail(ops))

\* _validate_all_diagonal_in_tpb: [ok, mapping]
validate_all_diagonal_in_tpb(ops) == ValidateFrom([ok |-> TRUE, mapping |-> <<>>], ops)

\* only the in_operator of the first Experiment is collected
in_operators_first_only(experiments) ==
    [k \in 1..(IF Len(experiments) = 0 THEN 0 ELSE 1) |-> experiments[k].in_operator]

in_operators(experiments) == [k \in 1..Len(experiments) |-> experiments[k].in_operator]

out_operators(experiments) == [k \in 1..Len(experiments) |-> experiments[k].out_operator]

\* the rotations of a mapping, in the mapping's order: [ok, prog]
RECURSIVE Rotations(_, _)
Rotations(mapping, meas) ==
    IF mapping = <<>> THEN [ok |-> TRUE, prog |-> <<>>]
    ELSE LET r == IF meas THEN local_pauli_eig_meas(Head(mapping)[2], Head(mapping)[1])
                  ELSE local_pauli_eig_prep(Head(mapping)[2], Head(mapping)[1])
             rest == Rotations(Tail(mapping), meas)
         IN IF ~r.ok THEN [ok |-> FALSE, prog |-> <<>>]
            ELSE [ok |-> rest.ok, prog |-> r.prog \o rest.prog]

\* ------------------------------------------------------------------------
\* Statistics: exact rationals <<numerator, denominator>> in lowest terms
\* ------------------------------------------------------------------------
Abs(x) == IF x < 0 THEN -x ELSE x

RECURSIVE GCD(_, _)
GCD(a, b) == IF b = 0 THEN a ELSE GCD(b, a % b)

Frac(n, d) == LET g == GCD(Abs(n), d) IN <<n \div g, d \div g>>

RECURSIVE Prod(_, _, _)
\* product over the term's items of the eigenvalue 1 - 2 * bit of shot s
Prod(items, bitstrings, s) ==
    IF items = <<>> THEN 1
    ELSE (1 - 2 * bitstrings[Head(items)[1]][s]) * Prod(Tail(items), bitstrings, s)

RECURSIVE SumTo(_, _)
SumTo(f, n) == IF n = 0 THEN 0 ELSE f[n] + SumTo(f, n - 1)

\* the columns of every qubit are multiplied, not only those of the term
EstimateAllQubits(expt, bitstrings, n_shots) ==
    LET coeff == expt.out_operator.coefficient.re
        obs_vals == [s \in 1..n_shots |->
                        coeff * Prod([k \in 1..Cardinality(Qubits) |->
                                        <<SortedSeq(Qubits)[k], "Z">>], bitstrings, s)]
        total == SumTo(obs_vals, n_shots)
        totalsq == SumTo([s \in 1..n_shots |-> obs_vals[s] * obs_vals[s]], n_shots)
    IN [experiment |-> expt,
        expectation |-> Frac(total, n_shots),
        stddev_sq |-> Frac(n_shots * totalsq - total * total, n_shots * n_shots * n_shots)]

\* np.var with ddof = 1: the squared deviations are divided by n_shots - 1
EstimateUnbiased(expt, bitstrings, n_shots) ==
    LET coeff == expt.out_operator.coefficient.re
        obs_vals == [s \in 1..n_shots |->
                        coeff * Prod(TermItems(expt.out_operator), bitstrings, s)]
        total == SumTo(obs_vals, n_shots)
        totalsq == SumTo([s \in 1..n_shots |-> obs_vals[s] * obs_vals[s]], n_shots)
    IN [experiment |-> expt,
        expectation |-> Frac(total, n_shots),
        stddev_sq |-> IF n_shots = 1 THEN <<0, 1>>
                      ELSE Frac(n_shots * totalsq - total * total,
                                n_shots * n_shots * (n_shots - 1))]

\* steps 3.3 - 3.6 of measure_observables for one Experiment with a real
\* coefficient: the sample mean and the square of the reported stddev
Estimate(expt, bitstrings, n_shots) ==
    LET coeff == expt.out_operator.coefficient.re
        obs_vals == [s \in 1..n_shots |->
                        coeff * Prod(TermItems(expt.out_operator), bitstrings, s)]
        total == SumTo(obs_vals, n_shots)
        totalsq == SumTo([s \in 1..n_shots |-> obs_vals[s] * obs_vals[s]], n_shots)
    IN [experiment |-> expt,
        expectation |-> Frac(total, n_shots),
        stddev_sq |-> Frac(n_shots * totalsq - total * total, n_shots * n_shots * n_shots)]

\* the identity reported with its coefficient as the expectation
IdentityResultScaled(expt) ==
    [experiment |-> expt,
     expectation |-> Frac(expt.out_operator.coefficient.re, 1),
     stddev_sq |-> <<0, 1>>]

\* step 3.2: the result of an identity out_operator
IdentityResult(expt) == [experiment |-> expt, expectation |-> <<1, 1>>, stddev_sq |-> <<0, 1>>]

\* ------------------------------------------------------------------------
\* Inputs: the Experiments and groups the suites are drawn from
\* ------------------------------------------------------------------------
X0 == sOp("X", 0)

X1 == sOp("X", 1)

Z0 == sOp("Z", 0)

Z1 == sOp("Z", 1)

\* I -> Z0, I -> X0, I -> X1, I -> Z1
eZ0 == Experiment(sI, Z0)

eX0 == Experiment(sI, X0)

eX1 == Experiment(sI, X1)

eZ1 == Experiment(sI, Z1)

\* I -> 2*Z0*Z1
e2ZZ == Experiment(sI, Scaled(2, 0, Times(Z0, Z1)))

\* X0 -> Z0 and Z0 -> Z0: prepared in different bases of qubit 0
ePrepX == Experiment(X0, Z0)

ePrepZ == Experiment(Z0, Z0)

\* I -> I and I -> 2*I
eId == Experiment(sI, sI)

eId2 == Experiment(sI, Scaled(2, 0, sI))

\* 2*X0 -> I and 2*X0 -> Z0: an in_operator with a coefficient
eBadInId == Experiment(Scaled(2, 0, X0), sI)

eBadIn == Experiment(Scaled(2, 0, X0), Z0)

\* I -> 1j*Z0: an out_operator with an imaginary coefficient
eComplex == Experiment(sI, Scaled(0, 1, Z0))

\* 2*X0 -> 1j*Z0: both
eBoth == Experiment(Scaled(2, 0, X0), Scaled(0, 1, Z0))

GroupPool ==
    { <<>>,
      <<eZ0, e2ZZ, eZ0>>,
      <<eX0, eX1, eZ0>>,
      <<ePrepX, ePrepZ>>,
      <<eId2, eBadInId, eBadIn>>,
      <<eId, eX1, eComplex>>,
      <<eBoth>> }

AnsatzProgram == <<Instr("ANSATZ", "none", -1)>>

\* ExperimentSuite(experiments, program, qubits) for an already grouped list
ExperimentSuite(experiments, program, qubits) ==
    [experiments |-> experiments, program |-> program, qubits |-> qubits]

SeqsUpTo(S, n) == UNION {[1..k -> S] : k \in 0..n}

RECURSIVE Flatten(_)
Flatten(groups) == IF groups = <<>> THEN <<>> ELSE Head(groups) \o Flatten(Tail(groups))

\* ------------------------------------------------------------------------
\* Strings: a string is the sequence of its characters
\* ------------------------------------------------------------------------
DigitChars == <<"0", "1", "2", "3", "4", "5", "6", "7", "8", "9">>

\* str(n) for a one-digit integer
IntStr(n) == IF n < 0 THEN <<"-", DigitChars[1 - n]>> ELSE <<DigitChars[n + 1]>>

\* int(text): the integer text is the str() of
ParseInt(text) == CHOOSE n \in -9..9 : IntStr(n) = text

\* str(complex): '(re+imj)'
CoefStr(c) ==
    <<"(">> \o IntStr(c.re) \o (IF c.im < 0 THEN <<>> ELSE <<"+">>) \o IntStr(c.im) \o <<"j", ")">>

\* the position of the sign that separates the real and imaginary parts
ImagStart(text) ==
    CHOOSE k \in 3..Len(text) : text[k] \in {"+", "-"}

\* complex(text)
ParseCoef(text) ==
    LET k == ImagStart(text)
        im_text == SubSeq(text, k, Len(text) - 2)
    IN [re |-> ParseInt(SubSeq(text, 2, k - 1)),
        im |-> ParseInt(IF Head(im_text) = "+" THEN Tail(im_text) ELSE im_text)]

\* PauliTerm.id(): letter and qubit of every non-identity factor, 'I' for
\* the identity
RECURSIVE IdStr(_)
IdStr(items) ==
    IF items = <<>> THEN <<>>
    ELSE <<Head(items)[2]>> \o IntStr(Head(items)[1]) \o IdStr(Tail(items))

\* PauliTerm.compact_str(): '<coefficient>*<id>'
compact_str(t) ==
    CoefStr(t.coefficient) \o <<"*">> \o
    (IF is_identity(t) THEN <<"I">> ELSE IdStr(TermItems(t)))

\* str.split(sep): the parts between the occurrences of sep
RECURSIVE Split(_, _)
Split(text, sep) ==
    IF \A k \in 1..Len(text) : text[k] # sep THEN <<text>>
    ELSE LET k == CHOOSE m \in 1..Len(text) :
                      text[m] = sep /\ \A n \in 1..(m - 1) : text[n] # sep
         IN <<SubSeq(text, 1, k - 1)>> \o Split(SubSeq(text, k + 1, Len(text)), sep)

\* the letter the (letter, qubit) pairs of an id string give to qubit q
RECURSIVE LetterAt(_, _)
LetterAt(id_str, q) ==
    IF Len(id_str) < 2 THEN "I"
    ELSE IF ParseInt(<<id_str[2]>>) = q THEN id_str[1]
    ELSE LetterAt(Tail(Tail(id_str)), q)

\* PauliTerm.from_compact_str
from_compact_str(text) ==
    LET parts == Split(text, "*")
        c == ParseCoef(parts[1])
    IN IF parts[2] = <<"I">> THEN PauliTerm([q \in Qubits |-> "I"], c.re, c.im)
       ELSE PauliTerm([q \in Qubits |-> LetterAt(parts[2], q)], c.re, c.im)

\* the separator of the two operators, the character U+2192
Arrow == "->"

\* Experiment.__str__
ExperimentStr(e) == compact_str(e.in_operator) \o <<Arrow>> \o compact_str(e.out_operator)

\* Experiment.serializable
ExperimentSerializable(e) == ExperimentStr(e)

\* ------------------------------------------------------------------------
\* State
\* ------------------------------------------------------------------------
VARIABLES
    \* measure_observables: arguments
    experiment_suite, n_shots, progress_callback, active_reset,
    \* measure_observables: the generator's frame
    gen,            \* "created", "running", "suspended", "done", "failed"
    pc,             \* "prepare", "measure", "run", "callback", "post"
    i,              \* index of the current group (enumerate)
    j,              \* position of the inner loop in the current group
    total_prog, bitstrings,
    err,            \* the exception that ended the generator, or "none"
    \* what the collaborators and the consumer have seen
    calls,          \* run_and_measure invocations: [group, program, n_shots]
    callbacks,      \* progress_callback invocations: <<i, total>>
    delivered,      \* the Experiments of the results delivered, in order
    results,        \* the results delivered for the current group
    stopped,        \* the consumer stopped iterating
    retried,        \* the consumer called next() on an ended generator
    requests,       \* how many times the consumer asked for a result
    \* group_experiments
    suite,          \* the argument `experiments`
    gpc,            \* "start", "ramsey", "removal", "done", "failed"
    g,              \* the TPB graph: [nodes, count, edges]
    graph,          \* clique_removal: the nodes not yet removed
    c_i,            \* clique_removal: the clique extracted last
    cliqs,          \* clique_removal: the cliques extracted so far
    grouped,        \* the returned suite
    \* ExperimentSuite construction and JSON round trip
    args,           \* the constructor's arguments: [experiments, program, qubits]
    dpc,            \* "args", "built", "written", "read"
    s,              \* the constructed suite
    doc,            \* the JSON document written by to_json
    s2,             \* the suite returned by read_json
    \* Experiment string round trip
    e1,           \* the Experiment
    epc,            \* "new", "str", "parsed"
    e_str,       \* str(e1)
    e2,          \* Experiment.from_str(e_str)
    \* a call of _local_pauli_eig_prep or _local_pauli_eig_meas
    rot_fn,         \* "none" before the call, then "prep" or "meas"
    rot_op, rot_idx,\* the arguments op and idx
    rot_res,        \* what the call gave: [ok, prog]
    \* calls on an ExperimentSuite held by a caller
    c_suite,        \* the suite
    c_op,           \* the call made last: "append", "pop", "abbrev", ...
    c_arg,          \* its argument: Item(isinstance, value)
    c_ret,          \* what it returned: a group, or a string
    c_err,          \* "none", or the exception it raised
    \* wait_for_job
    ping_time,      \* the argument ping_time, in time units
    status_time,    \* the argument status_time, in time units; 0 is falsy
    count,          \* the local count
    job,            \* the status of the job fetched last
    wpc,            \* "loop", "returned", "failed"
    printed         \* the number of status lines printed

mvars == <<experiment_suite, n_shots, progress_callback, active_reset, gen, pc, i, j,
           total_prog, bitstrings, err, calls, callbacks, delivered, results,
           stopped, retried, requests>>

gvars == <<suite, gpc, g, graph, c_i, cliqs, grouped>>

dvars == <<args, dpc, s, doc, s2>>

evars == <<e1, epc, e_str, e2>>

rvars == <<rot_fn, rot_op, rot_idx, rot_res>>

cvars == <<c_suite, c_op, c_arg, c_ret, c_err>>

wvars == <<ping_time, status_time, count, job, wpc, printed>>

\* the variables of the data types, of the rotation lookup and of the wait
libvars == <<dvars, evars, rvars, cvars, wvars>>

vars == <<mvars, gvars, libvars>>

NoBits == [q \in Qubits |-> <<>>]

NoGraph == [nodes |-> {}, count |-> <<>>, edges |-> {}]

NoSuite == ExperimentSuite(<<>>, <<>>, <<>>)

NoArgs == [experiments |-> <<>>, program |-> <<>>, qubits |-> <<>>]

NoDoc == [type |-> "none", experiments |-> <<>>, program |-> <<>>, qubits |-> <<>>]

NoRotation == [ok |-> TRUE, prog |-> <<>>]

\* no suite is being constructed or serialized
DataIdle ==
    /\ args = NoArgs
    /\ dpc = "idle"
    /\ s = NoSuite
    /\ doc = NoDoc
    /\ s2 = NoSuite

\* no Experiment is being converted
ExperimentIdle ==
    /\ e1 = Experiment(sI, sI)
    /\ epc = "idle"
    /\ e_str = <<>>
    /\ e2 = Experiment(sI, sI)

\* no rotation is being looked up
RotationIdle ==
    /\ rot_fn = "idle"
    /\ rot_op = "I"
    /\ rot_idx = 0
    /\ rot_res = NoRotation

\* no caller holds a suite
ContainerIdle ==
    /\ c_suite = NoSuite
    /\ c_op = "idle"
    /\ c_arg = [isinstance |-> "NoneType", value |-> 0]
    /\ c_ret = <<>>
    /\ c_err = "none"

\* no job is waited for
WaitIdle ==
    /\ ping_time = 1
    /\ status_time = 0
    /\ count = 0
    /\ job = "none"
    /\ wpc = "idle"
    /\ printed = 0

\* group_experiments is not running
GroupIdle ==
    /\ suite = NoSuite
    /\ gpc = "idle"
    /\ g = NoGraph
    /\ graph = {}
    /\ c_i = {}
    /\ cliqs = <<>>
    /\ grouped = NoSuite

\* measure_observables is not running
MeasureIdle ==
    /\ experiment_suite = NoSuite
    /\ n_shots = 0
    /\ progress_callback = FALSE
    /\ active_reset = FALSE
    /\ gen = "idle"
    /\ pc = "prepare"
    /\ i = 0
    /\ j = 1
    /\ total_prog = <<>>
    /\ bitstrings = NoBits
    /\ err = "none"
    /\ calls = <<>>
    /\ callbacks = <<>>
    /\ delivered = <<>>
    /\ results = <<>>
    /\ stopped = FALSE
    /\ retried = FALSE
    /\ requests = 0

\* ------------------------------------------------------------------------
\* measure_observables
\* ------------------------------------------------------------------------
InitMeasure ==
    /\ \E groups \in SeqsUpTo(GroupPool, MaxGroups) :
          experiment_suite = ExperimentSuite(groups, AnsatzProgram, <<0, 1>>)
    /\ n_shots \in 1..MaxShots
    /\ progress_callback \in BOOLEAN
    /\ active_reset \in BOOLEAN
    /\ gen = "created"
    /\ pc = "prepare"
    /\ i = 0
    /\ j = 1
    /\ total_prog = <<>>
    /\ bitstrings = NoBits
    /\ err = "none"
    /\ calls = <<>>
    /\ callbacks = <<>>
    /\ delivered = <<>>
    /\ results = <<>>
    /\ stopped = FALSE
    /\ retried = FALSE
    /\ requests = 0
    /\ GroupIdle
    /\ DataIdle
    /\ ExperimentIdle
    /\ RotationIdle
    /\ ContainerIdle
    /\ WaitIdle

Groups == experiment_suite.experiments

\* the generator can be resumed: it is suspended at a yield (or not yet
\* started) and the consumer is still iterating
ResumableAfterFailure == gen \in {"created", "suspended", "failed"} /\ ~stopped

Resumable == gen \in {"created", "suspended"} /\ ~stopped

\* the generator body runs without being asked
RunningEager == gen \in {"created", "running", "suspended"}

\* the body of the generator runs only inside a next() of the consumer
Running == gen = "running"

\* the callback is invoked before the device is called
SuccessorCallbackFirst(p) ==
    CASE p = "prepare" -> "measure"
      [] p = "measure" -> "callback"
      [] p = "callback" -> "run"
      [] p = "run" -> "post"

\* the device is called before the out_operators are validated
SuccessorRunFirst(p) ==
    CASE p = "prepare" -> "run"
      [] p = "run" -> "measure"
      [] p = "measure" -> "callback"
      [] p = "callback" -> "post"
      [] p = "post" -> "post"

\* the device is called again for every Experiment of the group
SuccessorRerun(p) ==
    CASE p = "prepare" -> "measure"
      [] p = "measure" -> "run"
      [] p = "run" -> "callback"
      [] p = "callback" -> "post"
      [] p = "post" -> "run"

\* the order of the steps of the loop body: 1.1-1.2 prepare, 1.3 measure,
\* 2 run, progress_callback, 3 post-process (the inner loop, which yields)
Successor(p) ==
    CASE p = "prepare" -> "measure"
      [] p = "measure" -> "run"
      [] p = "run" -> "callback"
      [] p = "callback" -> "post"
      [] p = "post" -> "post"

\* the inner loop stops one Experiment short
InnerHasNextShort(experiments, pos) == pos < Len(experiments)

\* `for expt in experiments` has another Experiment
InnerHasNext(experiments, pos) == pos <= Len(experiments)

\* the consumer asks for the next result
Request ==
    /\ Resumable
    /\ gen' = "running"
    /\ requests' = requests + 1
    /\ UNCHANGED <<experiment_suite, n_shots, progress_callback, active_reset, pc, i, j,
                   total_prog, bitstrings, err, calls, callbacks, delivered, results,
                   stopped, retried, gvars, libvars>>

\* the consumer stops iterating; the generator is never resumed
StopIterating ==
    /\ Resumable
    /\ stopped' = TRUE
    /\ UNCHANGED <<experiment_suite, n_shots, progress_callback, active_reset, gen, pc, i, j,
                   total_prog, bitstrings, err, calls, callbacks, delivered, results,
                   retried, requests, gvars, libvars>>

\* next() on a generator that returned or raised: StopIteration, nothing runs
RequestAfterEnd ==
    /\ gen \in {"done", "failed"}
    /\ ~retried
    /\ retried' = TRUE
    /\ UNCHANGED <<experiment_suite, n_shots, progress_callback, active_reset, gen, pc, i, j,
                   total_prog, bitstrings, err, calls, callbacks, delivered, results,
                   stopped, requests, gvars, libvars>>

\* the outer for loop is exhausted: the generator returns
Finish ==
    /\ Running /\ pc = "prepare"
    /\ i = Len(Groups)
    /\ gen' = "done"
    /\ UNCHANGED <<experiment_suite, n_shots, progress_callback, active_reset, pc, i, j,
                   total_prog, bitstrings, err, calls, callbacks, delivered, results,
                   stopped, retried, requests, gvars, libvars>>

\* the ansatz program is put before the preparation rotations
PreparationProgramFirst(experiments, program, reset) ==
    LET in_mapping == validate_all_diagonal_in_tpb(in_operators(experiments))
        prep == Rotations(in_mapping.mapping, FALSE)
        head == IF reset THEN <<Instr("RESET", "none", -1)>> ELSE <<>>
    IN IF ~in_mapping.ok THEN [err |-> "grouping", prog |-> <<>>]
       ELSE IF ~prep.ok THEN [err |-> "letter", prog |-> <<>>]
       ELSE [err |-> "none", prog |-> head \o program \o prep.prog]

\* step 1.1 - 1.2: [err, prog]; the in_operators are validated, the
\* preparation rotations and the ansatz program are appended
Preparation(experiments, program, reset) ==
    LET in_mapping == validate_all_diagonal_in_tpb(in_operators(experiments))
        prep == Rotations(in_mapping.mapping, FALSE)
        head == IF reset THEN <<Instr("RESET", "none", -1)>> ELSE <<>>
    IN IF ~in_mapping.ok THEN [err |-> "grouping", prog |-> <<>>]
       ELSE IF ~prep.ok THEN [err |-> "letter", prog |-> <<>>]
       ELSE [err |-> "none", prog |-> head \o prep.prog \o program]

\* step 1.3: [err, prog]; the out_operators are validated and the
\* measurement rotations are appended
Measurement(experiments, prog) ==
    LET out_mapping == validate_all_diagonal_in_tpb(out_operators(experiments))
        meas == Rotations(out_mapping.mapping, TRUE)
    IN IF ~out_mapping.ok THEN [err |-> "grouping", prog |-> <<>>]
       ELSE IF ~meas.ok THEN [err |-> "letter", prog |-> <<>>]
       ELSE [err |-> "none", prog |-> prog \o meas.prog]

\* the next group: steps 1.1 and 1.2
Prepare ==
    /\ Running /\ pc = "prepare"
    /\ i < Len(Groups)
    /\ LET syn == Preparation(Groups[i + 1], experiment_suite.program, active_reset)
       IN IF syn.err = "none"
          THEN /\ total_prog' = syn.prog
               /\ pc' = Successor(pc)
               /\ UNCHANGED <<gen, err>>
          ELSE /\ gen' = "failed"
               /\ err' = syn.err
               /\ UNCHANGED <<total_prog, pc>>
    /\ results' = <<>>
    /\ UNCHANGED <<experiment_suite, n_shots, progress_callback, active_reset, i, j,
                   bitstrings, calls, callbacks, delivered, stopped, retried, requests,
                   gvars, libvars>>

\* step 1.3
Measure ==
    /\ Running /\ pc = "measure"
    /\ LET syn == Measurement(Groups[i + 1], total_prog)
       IN IF syn.err = "none"
          THEN /\ total_prog' = syn.prog
               /\ pc' = Successor(pc)
               /\ UNCHANGED <<gen, err>>
          ELSE /\ gen' = "failed"
               /\ err' = syn.err
               /\ UNCHANGED <<total_prog, pc>>
    /\ UNCHANGED <<experiment_suite, n_shots, progress_callback, active_reset, i, j,
                   bitstrings, calls, callbacks, delivered, results, stopped, retried,
                   requests, gvars, libvars>>

Call == [group |-> i, program |-> total_prog, n_shots |-> n_shots]

\* step 2: qc.run_and_measure returns one bit per qubit and shot
RunOk ==
    /\ Running /\ pc = "run"
    /\ calls' = Append(calls, Call)
    /\ bitstrings' \in [Qubits -> [1..n_shots -> {0, 1}]]
    /\ pc' = Successor(pc)
    /\ UNCHANGED <<experiment_suite, n_shots, progress_callback, active_reset, gen, i, j,
                   total_prog, err, callbacks, delivered, results, stopped, retried,
                   requests, gvars, libvars>>

\* step 2: qc.run_and_measure raises
RunFail ==
    /\ Running /\ pc = "run"
    /\ calls' = Append(calls, Call)
    /\ gen' = "failed"
    /\ err' = "device"
    /\ UNCHANGED <<experiment_suite, n_shots, progress_callback, active_reset, pc, i, j,
                   total_prog, bitstrings, callbacks, delivered, results, stopped, retried,
                   requests, gvars, libvars>>

\* progress_callback(i, len(experiment_suite)) if supplied; the inner loop starts
Callback ==
    /\ Running /\ pc = "callback"
    /\ callbacks' = IF progress_callback THEN Append(callbacks, <<i, Len(Groups)>>)
                    ELSE callbacks
    /\ pc' = Successor(pc)
    /\ j' = 1
    /\ UNCHANGED <<experiment_suite, n_shots, progress_callback, active_reset, gen, i,
                   total_prog, bitstrings, err, calls, delivered, results, stopped, retried,
                   requests, gvars, libvars>>

\* steps 3.2 - 3.6 without the assertion on the in_operator's coefficient
PostProcessNoAssert(expt, bits, shots) ==
    IF is_identity(expt.out_operator)
    THEN [err |-> "none", result |-> IdentityResult(expt)]
    ELSE IF expt.out_operator.coefficient.im # 0
    THEN [err |-> "complex_coefficient", result |-> IdentityResult(expt)]
    ELSE [err |-> "none", result |-> Estimate(expt, bits, shots)]

\* steps 3.2 - 3.6 for one Experiment: [err, result]
PostProcess(expt, bits, shots) ==
    IF is_identity(expt.out_operator)
    THEN [err |-> "none", result |-> IdentityResult(expt)]
    ELSE IF expt.in_operator.coefficient # [re |-> 1, im |-> 0]
    THEN [err |-> "in_coefficient", result |-> IdentityResult(expt)]
    ELSE IF expt.out_operator.coefficient.im # 0
    THEN [err |-> "complex_coefficient", result |-> IdentityResult(expt)]
    ELSE [err |-> "none", result |-> Estimate(expt, bits, shots)]

\* the inner loop yields the result of the next Experiment of the group
Yield ==
    /\ Running /\ pc = "post"
    /\ InnerHasNext(Groups[i + 1], j)
    /\ LET out == PostProcess(Groups[i + 1][j], bitstrings, n_shots)
       IN /\ out.err = "none"
          /\ results' = Append(results, out.result)
          /\ delivered' = Append(delivered, out.result.experiment)
    /\ gen' = "suspended"
    /\ j' = j + 1
    /\ pc' = Successor(pc)
    /\ UNCHANGED <<experiment_suite, n_shots, progress_callback, active_reset, i,
                   total_prog, bitstrings, err, calls, callbacks, stopped, retried,
                   requests, gvars, libvars>>

\* the inner loop raises on the next Experiment of the group
FailCoefficient ==
    /\ Running /\ pc = "post"
    /\ InnerHasNext(Groups[i + 1], j)
    /\ LET out == PostProcess(Groups[i + 1][j], bitstrings, n_shots)
       IN /\ out.err # "none"
          /\ err' = out.err
    /\ gen' = "failed"
    /\ UNCHANGED <<experiment_suite, n_shots, progress_callback, active_reset, pc, i, j,
                   total_prog, bitstrings, calls, callbacks, delivered, results,
                   stopped, retried, requests, gvars, libvars>>

\* the inner loop is exhausted: on to the next group
EndGroup ==
    /\ Running /\ pc = "post"
    /\ ~InnerHasNext(Groups[i + 1], j)
    /\ i' = i + 1
    /\ pc' = "prepare"
    /\ UNCHANGED <<experiment_suite, n_shots, progress_callback, active_reset, gen, j,
                   total_prog, bitstrings, err, calls, callbacks, delivered, results,
                   stopped, retried, requests, gvars, libvars>>

NextMeasure ==
    \/ Request
    \/ StopIterating
    \/ RequestAfterEnd
    \/ Finish
    \/ Prepare
    \/ Measure
    \/ RunOk
    \/ RunFail
    \/ Callback
    \/ Yield
    \/ FailCoefficient
    \/ EndGroup

SpecMeasure == InitMeasure /\ [][NextMeasure]_vars

\* ------------------------------------------------------------------------
\* group_experiments
\* ------------------------------------------------------------------------
ExptPool == {eX0, eX1, eZ0, eZ1, ePrepX, ePrepZ}

\* ExperimentSuite(experiments, program, qubits) for a flat list: each
\* Experiment is wrapped in a list of length 1
FlatSuite(expts, program, qubits) ==
    ExperimentSuite([k \in 1..Len(expts) |-> <<expts[k]>>], program, qubits)

\* suites that are not all-singleton
PreGrouped == { <<<<eX0, eX1>>, <<eZ0>>>>, <<<<eZ0>>, <<>>>> }

InitGroup ==
    /\ \/ \E expts \in SeqsUpTo(ExptPool, MaxFlat) :
             suite = FlatSuite(expts, AnsatzProgram, <<0, 1>>)
       \/ \E groups \in PreGrouped :
             suite = ExperimentSuite(groups, AnsatzProgram, <<0, 1>>)
    /\ gpc = "start"
    /\ g = NoGraph
    /\ graph = {}
    /\ c_i = {}
    /\ cliqs = <<>>
    /\ grouped = NoSuite
    /\ MeasureIdle
    /\ DataIdle
    /\ ExperimentIdle
    /\ RotationIdle
    /\ ContainerIdle
    /\ WaitIdle

\* the edge test of construct_tpb_graph
EdgeTestEither(expt1, expt2) ==
    \/ all_qubits_diagonal_in_tpb(expt1.in_operator, expt2.in_operator)
    \/ all_qubits_diagonal_in_tpb(expt1.out_operator, expt2.out_operator)

EdgeTest(expt1, expt2) ==
    /\ all_qubits_diagonal_in_tpb(expt1.in_operator, expt2.in_operator)
    /\ all_qubits_diagonal_in_tpb(expt1.out_operator, expt2.out_operator)

\* the count attribute of a node
NodeCountOne(experiments, expt) == 1

NodeCount(experiments, expt) ==
    Cardinality({k \in 1..Len(experiments) : experiments[k][1] = expt})

\* every pair of nodes is tested, a node with itself included
construct_tpb_graph_self_loops(experiments) ==
    LET nodes == {experiments[k][1] : k \in 1..Len(experiments)}
    IN [nodes |-> nodes,
        count |-> [expt \in nodes |-> NodeCount(experiments, expt)],
        edges |-> {{expt1, expt2} : <<expt1, expt2>> \in
                      {p \in nodes \X nodes : EdgeTest(p[1], p[2])}}]

\* construct_tpb_graph for an all-singleton suite
construct_tpb_graph(experiments) ==
    LET nodes == {experiments[k][1] : k \in 1..Len(experiments)}
    IN [nodes |-> nodes,
        count |-> [expt \in nodes |-> NodeCount(experiments, expt)],
        edges |-> {{expt1, expt2} : <<expt1, expt2>> \in
                      {p \in nodes \X nodes : p[1] # p[2] /\ EdgeTest(p[1], p[2])}}]

\* only the empty groups are refused
AllSingletonNonEmpty(experiments) == \A k \in 1..Len(experiments) : Len(experiments[k]) >= 1

AllSingleton(experiments) == \A k \in 1..Len(experiments) : Len(experiments[k]) = 1

\* construct_tpb_graph, then clique_removal copies the graph
ConstructGraph ==
    /\ gpc = "start"
    /\ AllSingleton(suite.experiments)
    /\ g' = construct_tpb_graph(suite.experiments)
    /\ graph' = g'.nodes
    /\ gpc' = "ramsey"
    /\ UNCHANGED <<suite, c_i, cliqs, grouped, mvars, libvars>>

\* construct_tpb_graph: assert len(expt) == 1, 'already grouped?'
ConstructFail ==
    /\ gpc = "start"
    /\ ~AllSingleton(suite.experiments)
    /\ gpc' = "failed"
    /\ UNCHANGED <<suite, g, graph, c_i, cliqs, grouped, mvars, libvars>>

Neighbors(node, V) == {u \in V \ {node} : {u, node} \in g.edges}

\* networkx ramsey_R2 on the subgraph induced by V: the cliques it can
\* return, over every choice of the arbitrary node. For the node picked it
\* recurses into the node's neighbours (c[1], to which the node is added)
\* and into its non-neighbours (c[2]) and keeps the longer clique, the
\* first on a tie.
RECURSIVE ramsey_R2(_)
ramsey_R2(V) ==
    IF V = {} THEN {{}}
    ELSE UNION { { IF Cardinality(c[1]) + 1 >= Cardinality(c[2])
                   THEN c[1] \cup {node} ELSE c[2] :
                   c \in ramsey_R2(Neighbors(node, V))
                         \X ramsey_R2(V \ ({node} \cup Neighbors(node, V))) } :
                 node \in V }

\* the first clique is extracted but the list of cliques starts empty
FirstCliqueDropped ==
    /\ gpc = "ramsey"
    /\ \E c \in ramsey_R2(graph) :
          /\ c_i' = c
          /\ cliqs' = <<>>
    /\ gpc' = "removal"
    /\ UNCHANGED <<suite, g, graph, grouped, mvars, libvars>>

\* clique_removal: the first clique, kept in the list even when the graph
\* (and so the clique) is empty
FirstClique ==
    /\ gpc = "ramsey"
    /\ \E c \in ramsey_R2(graph) :
          /\ c_i' = c
          /\ cliqs' = <<c>>
    /\ gpc' = "removal"
    /\ UNCHANGED <<suite, g, graph, grouped, mvars, libvars>>

\* clique_removal: one turn of `while graph`: the last clique is removed,
\* the next one is extracted and kept if it is not empty
RemoveClique ==
    /\ gpc = "removal"
    /\ graph # {}
    /\ graph' = graph \ c_i
    /\ \E c \in ramsey_R2(graph') :
          /\ c_i' = c
          /\ cliqs' = IF c # {} THEN Append(cliqs, c) ELSE cliqs
    /\ UNCHANGED <<suite, gpc, g, grouped, mvars, libvars>>

Perms(S) == {f \in [1..Cardinality(S) -> S] : \A a, b \in DOMAIN f : f[a] = f[b] => a = b}

Repeat(expt, n) == [k \in 1..n |-> expt]

\* new_cliq for the members of a clique taken in the order `order`
RECURSIVE ExpandClique(_)
ExpandClique(order) ==
    IF order = <<>> THEN <<>>
    ELSE Repeat(Head(order), g.count[Head(order)]) \o ExpandClique(Tail(order))

\* new_cliqs: every iteration order of each clique
RECURSIVE Expansions(_)
Expansions(cs) ==
    IF cs = <<>> THEN {<<>>}
    ELSE {<<ExpandClique(p[1])>> \o p[2] : p \in Perms(Head(cs)) \X Expansions(Tail(cs))}

\* the returned suite is built with the constructor's defaults
ReturnedSuiteDefaults(new_cliqs, experiments) == ExperimentSuite(new_cliqs, <<>>, <<>>)

\* ExperimentSuite(new_cliqs, program=experiments.program, qubits=experiments.qubits)
ReturnedSuite(new_cliqs, experiments) ==
    ExperimentSuite(new_cliqs, experiments.program, experiments.qubits)

\* the cliques are expanded by the counts and returned as a new suite
Return ==
    /\ gpc = "removal"
    /\ graph = {}
    /\ \E new_cliqs \in Expansions(cliqs) :
          grouped' = ReturnedSuite(new_cliqs, suite)
    /\ gpc' = "done"
    /\ UNCHANGED <<suite, g, graph, c_i, cliqs, mvars, libvars>>

NextGroup ==
    \/ ConstructGraph
    \/ ConstructFail
    \/ FirstClique
    \/ RemoveClique
    \/ Return

SpecGroup == InitGroup /\ [][NextGroup]_vars

\* the suite of test_measure_observables: identity in_operator, the
\* out_operator o1 * o2 for o1 over I, X, Y, Z on qubit 0 and o2 over
\* I, X, Y, Z on qubit 1, in the order of itertools.product
Pauli4 == <<"I", "X", "Y", "Z">>

ProductExpts ==
    [k \in 1..16 |->
        Experiment(sI, Times(sOp(Pauli4[((k - 1) \div 4) + 1], 0),
                             sOp(Pauli4[((k - 1) % 4) + 1], 1)))]

InitGroupProduct ==
    /\ suite = FlatSuite(ProductExpts, AnsatzProgram, <<0, 1>>)
    /\ gpc = "start"
    /\ g = NoGraph
    /\ graph = {}
    /\ c_i = {}
    /\ cliqs = <<>>
    /\ grouped = NoSuite
    /\ MeasureIdle
    /\ DataIdle
    /\ ExperimentIdle
    /\ RotationIdle
    /\ ContainerIdle
    /\ WaitIdle

\* group_experiments up to the end of clique_removal; the returned suite has
\* one group per clique
NextCliqueRemoval ==
    \/ ConstructGraph
    \/ FirstClique
    \/ RemoveClique

SpecGroupProduct == InitGroupProduct /\ [][NextCliqueRemoval]_vars

\* ------------------------------------------------------------------------
\* Experiment: str and from_str
\* ------------------------------------------------------------------------
\* coefficients: 1, 2, -1, 1j and 1-2j
CoefficientPool ==
    { [re |-> 1, im |-> 0], [re |-> 2, im |-> 0], [re |-> -1, im |-> 0],
      [re |-> 0, im |-> 1], [re |-> 1, im |-> -2] }

\* every term on the qubits with a coefficient of the pool
TermPool == {PauliTerm(ops, c.re, c.im) : ops \in [Qubits -> Letters], c \in CoefficientPool}

InitExperiment ==
    /\ e1 \in {Experiment(iop, oop) : iop \in TermPool \cup {sI}, oop \in TermPool}
    /\ epc = "new"
    /\ e_str = <<>>
    /\ e2 = Experiment(sI, sI)
    /\ MeasureIdle
    /\ GroupIdle
    /\ DataIdle
    /\ RotationIdle
    /\ ContainerIdle
    /\ WaitIdle

\* str(e1)
Str ==
    /\ epc = "new"
    /\ e_str' = ExperimentStr(e1)
    /\ epc' = "str"
    /\ UNCHANGED <<e1, e2, mvars, gvars, dvars, rvars, cvars, wvars>>

\* the in_operator is parsed from the second part and the out_operator
\* from the first
from_str_swapped(text) ==
    LET parts == Split(text, Arrow)
    IN IF Len(parts) # 2 THEN [ok |-> FALSE, value |-> Experiment(sI, sI)]
       ELSE [ok |-> TRUE,
             value |-> Experiment(from_compact_str(parts[2]), from_compact_str(parts[1]))]

\* Experiment.from_str: [ok, value]; ok = FALSE is the ValueError of the
\* unpacking when the text does not split in two
from_str(text) ==
    LET parts == Split(text, Arrow)
    IN IF Len(parts) # 2 THEN [ok |-> FALSE, value |-> Experiment(sI, sI)]
       ELSE [ok |-> TRUE,
             value |-> Experiment(from_compact_str(parts[1]), from_compact_str(parts[2]))]

\* Experiment.from_str(str(e1))
FromStr ==
    /\ epc = "str"
    /\ LET r == from_str(e_str)
       IN /\ e2' = r.value
          /\ epc' = IF r.ok THEN "parsed" ELSE "failed"
    /\ UNCHANGED <<e1, e_str, mvars, gvars, dvars, rvars, cvars, wvars>>

NextExperiment ==
    \/ Str
    \/ FromStr

SpecExperiment == InitExperiment /\ [][NextExperiment]_vars

\* ------------------------------------------------------------------------
\* ExperimentSuite: construction, to_json and read_json
\* ------------------------------------------------------------------------
\* an element of the `experiments` argument with its Python type:
\* isinstance is "Experiment" or "list"
Item(isinstance, value) == [isinstance |-> isinstance, value |-> value]

\* the whole argument is taken as one group
ExperimentSuite_init_one_group(experiments, program, qubits) ==
    IF Len(experiments) = 0 THEN ExperimentSuite(<<>>, program, qubits)
    ELSE IF experiments[1].isinstance = "Experiment"
    THEN ExperimentSuite(<<[k \in 1..Len(experiments) |-> experiments[k].value]>>,
                         program, qubits)
    ELSE ExperimentSuite([k \in 1..Len(experiments) |-> experiments[k].value],
                         program, qubits)

\* ExperimentSuite.__init__: an empty argument gives no groups; when the
\* first element is an Experiment every element is wrapped in a list of
\* length 1; otherwise the argument is kept
ExperimentSuite_init(experiments, program, qubits) ==
    IF Len(experiments) = 0 THEN ExperimentSuite(<<>>, program, qubits)
    ELSE IF experiments[1].isinstance = "Experiment"
    THEN ExperimentSuite([k \in 1..Len(experiments) |-> <<experiments[k].value>>],
                         program, qubits)
    ELSE ExperimentSuite([k \in 1..Len(experiments) |-> experiments[k].value],
                         program, qubits)

\* ExperimentSuite.__len__
SuiteLen(o) == Len(o.experiments)

\* ExperimentSuite.__iter__: what the iteration yields, in order
SuiteIter(o) == [k \in 1..Len(o.experiments) |-> o.experiments[k]]

\* one line of Program.out(): the gate, its angle if any, and the qubit
InstrStr(ins) ==
    <<ins.gate>> \o (IF ins.angle = "none" THEN <<>> ELSE <<"(", ins.angle, ")">>)
                \o <<" ">> \o IntStr(ins.qubit)

\* Program.out(): the lines of the program
ProgramOut(program) == [k \in 1..Len(program) |-> InstrStr(program[k])]

\* Program(text): the instruction of each line
ProgramParse(text) ==
    [k \in 1..Len(text) |->
        LET parts == Split(text[k], " ")
        IN Instr(parts[1][1],
                 IF Len(parts[1]) > 1 THEN parts[1][3] ELSE "none",
                 ParseInt(parts[2]))]

\* ExperimentSuite.serializable
SuiteSerializable(o) ==
    [type |-> "ExperimentSuite",
     experiments |-> o.experiments,
     program |-> ProgramOut(o.program),
     qubits |-> o.qubits]

\* ExperimentSuite.__eq__
SuiteEq(o, other) == SuiteSerializable(o) = SuiteSerializable(other)

\* OperatorEncoder.default for a suite and, inside it, for its Experiments
Encode(o) ==
    [type |-> "ExperimentSuite",
     experiments |-> [k \in 1..Len(o.experiments) |->
                        [m \in 1..Len(o.experiments[k]) |->
                            ExperimentStr(o.experiments[k][m])]],
     program |-> ProgramOut(o.program),
     qubits |-> o.qubits]

\* the groups of the document are concatenated into a flat list
operator_object_hook_flat(obj) ==
    LET flat == Flatten(obj.experiments)
    IN [ok |-> \A m \in 1..Len(flat) : from_str(flat[m]).ok,
        value |-> ExperimentSuite_init(
                     [m \in 1..Len(flat) |-> Item("Experiment", from_str(flat[m]).value)],
                     ProgramParse(obj.program), obj.qubits)]

\* _operator_object_hook for the document of a suite: [ok, value]; ok =
\* FALSE when an Experiment string does not parse
operator_object_hook(obj) ==
    [ok |-> \A k \in 1..Len(obj.experiments) : \A m \in 1..Len(obj.experiments[k]) :
                from_str(obj.experiments[k][m]).ok,
     value |-> ExperimentSuite_init(
                  [k \in 1..Len(obj.experiments) |->
                      Item("list", [m \in 1..Len(obj.experiments[k]) |->
                                       from_str(obj.experiments[k][m]).value])],
                  ProgramParse(obj.program), obj.qubits)]

\* the Experiments the suites are made of: X0 -> Z0 and I -> 2*Z0*Z1
DataPool == {ePrepX, e2ZZ}

\* Program(X(0), Y(1)) of the tests
TestProgram == <<Instr("X", "none", 0), Instr("Y", "none", 1)>>

\* the programs and qubit lists of the suites
ProgramArgs == {<<TestProgram, <<0, 1>>>>, <<<<Instr("RX", "-pi/2", 0)>>, <<0>>>>}

\* the argument is a flat list of Experiments or a list of groups
InitSuite ==
    /\ \E pq \in ProgramArgs :
          \/ \E es \in SeqsUpTo(DataPool, MaxGroups) :
                args = [experiments |-> [k \in 1..Len(es) |-> Item("Experiment", es[k])],
                        program |-> pq[1], qubits |-> pq[2]]
          \/ \E gs \in SeqsUpTo(SeqsUpTo(DataPool, MaxGroups), MaxGroups) :
                args = [experiments |-> [k \in 1..Len(gs) |-> Item("list", gs[k])],
                        program |-> pq[1], qubits |-> pq[2]]
    /\ dpc = "args"
    /\ s = NoSuite
    /\ doc = NoDoc
    /\ s2 = NoSuite
    /\ MeasureIdle
    /\ GroupIdle
    /\ ExperimentIdle
    /\ RotationIdle
    /\ ContainerIdle
    /\ WaitIdle

\* s = ExperimentSuite(experiments, program, qubits)
Construct ==
    /\ dpc = "args"
    /\ s' = ExperimentSuite_init(args.experiments, args.program, args.qubits)
    /\ dpc' = "built"
    /\ UNCHANGED <<args, doc, s2, mvars, gvars, evars, rvars, cvars, wvars>>

\* to_json(fn, s)
ToJson ==
    /\ dpc = "built"
    /\ doc' = Encode(s)
    /\ dpc' = "written"
    /\ UNCHANGED <<args, s, s2, mvars, gvars, evars, rvars, cvars, wvars>>

\* s2 = read_json(fn)
ReadJson ==
    /\ dpc = "written"
    /\ LET r == operator_object_hook(doc)
       IN /\ s2' = r.value
          /\ dpc' = IF r.ok THEN "read" ELSE "failed"
    /\ UNCHANGED <<args, s, doc, mvars, gvars, evars, rvars, cvars, wvars>>

NextSuite ==
    \/ Construct
    \/ ToJson
    \/ ReadJson

SpecSuite == InitSuite /\ [][NextSuite]_vars

\* ------------------------------------------------------------------------
\* The rotation lookup called on its own
\* ------------------------------------------------------------------------
\* the op argument is any string: the four letters and one that is none of them
OpStrings == Letters \cup {"W"}

InitRotation ==
    /\ rot_fn = "none"
    /\ rot_op \in OpStrings
    /\ rot_idx \in 0..MaxQubitIndex
    /\ rot_res = NoRotation
    /\ MeasureIdle
    /\ GroupIdle
    /\ DataIdle
    /\ ExperimentIdle
    /\ ContainerIdle
    /\ WaitIdle

\* _local_pauli_eig_prep(op, idx)
Prep ==
    /\ rot_fn = "none"
    /\ rot_res' = local_pauli_eig_prep(rot_op, rot_idx)
    /\ rot_fn' = "prep"
    /\ UNCHANGED <<rot_op, rot_idx, mvars, gvars, dvars, evars, cvars, wvars>>

\* _local_pauli_eig_meas(op, idx)
Meas ==
    /\ rot_fn = "none"
    /\ rot_res' = local_pauli_eig_meas(rot_op, rot_idx)
    /\ rot_fn' = "meas"
    /\ UNCHANGED <<rot_op, rot_idx, mvars, gvars, dvars, evars, cvars, wvars>>

NextRotation ==
    \/ Prep
    \/ Meas

SpecRotation == InitRotation /\ [][NextRotation]_vars

\* ------------------------------------------------------------------------
\* The suite as a container of groups, and its renderings
\* ------------------------------------------------------------------------
\* sep.join(parts)
RECURSIVE Join(_, _)
Join(parts, sep) ==
    IF Len(parts) = 0 THEN <<>>
    ELSE IF Len(parts) = 1 THEN parts[1]
    ELSE parts[1] \o <<sep>> \o Join(Tail(parts), sep)

\* _abbrev_program(program, max_len). The slices lines[:n] and lines[-n:]
\* are taken as Python takes them for 0 <= n <= len(lines): -0 is 0, so
\* lines[-0:] is the whole list.
abbrev_program(program, max_len) ==
    LET program_lines == ProgramOut(program)
        SliceTo(list, n) == SubSeq(list, 1, n)
        SliceLast(list, n) ==
            IF n = 0 THEN list ELSE SubSeq(list, Len(list) - n + 1, Len(list))
        first_n == max_len.value \div 2
        last_n == max_len.value - first_n
        excluded == Len(program_lines) - max_len.value
    IN Join(IF max_len.isinstance # "NoneType" /\ Len(program_lines) > max_len.value
            THEN SliceTo(program_lines, first_n)
                 \o << <<"... ">> \o IntStr(excluded) \o <<" instrs not shown ...">> >>
                 \o SliceLast(program_lines, last_n)
            ELSE program_lines,
            "; ")

\* ExperimentSuite.experiment_strings: '{i}: {exptstr}' for each group
experiment_strings(o) ==
    [k \in 1..Len(o.experiments) |->
        IntStr(k - 1) \o <<": ">>
        \o Join([m \in 1..Len(o.experiments[k]) |-> ExperimentStr(o.experiments[k][m])],
                ", ")]

\* ExperimentSuite.experiments_string(abbrev_after)
experiments_string(o, abbrev_after) ==
    LET exptstrs == experiment_strings(o)
        SliceTo(list, n) == SubSeq(list, 1, n)
        SliceLast(list, n) ==
            IF n = 0 THEN list ELSE SubSeq(list, Len(list) - n + 1, Len(list))
        first_n == abbrev_after.value \div 2
        last_n == abbrev_after.value - first_n
        excluded == Len(exptstrs) - abbrev_after.value
    IN Join(IF abbrev_after.isinstance # "NoneType" /\ Len(exptstrs) > abbrev_after.value
            THEN SliceTo(exptstrs, first_n)
                 \o << <<"... ">> \o IntStr(excluded) \o <<" not shown ...">>,
                       <<"... use e.experiments_string() for all ...">> >>
                 \o SliceLast(exptstrs, last_n)
            ELSE exptstrs,
            "\n")

\* the default max_len of _abbrev_program and the abbrev_after of __str__
DefaultMaxLen == 10

StrAbbrevAfter == 20

\* ExperimentSuite.append(expts): anything but a list is wrapped in a list
ExperimentSuite_append(o, expts) ==
    ExperimentSuite(Append(o.experiments,
                           IF expts.isinstance # "list" THEN <<expts.value>>
                           ELSE expts.value),
                    o.program, o.qubits)

\* ExperimentSuite.pop(index=None): the index is handed to list.pop as it
\* is, None included. list.pop wants an integer index; a negative one
\* counts from the end.
ExperimentSuite_pop(o, index) ==
    LET list == o.experiments
    IN IF index.isinstance # "int"
       THEN [err |-> "TypeError", ret |-> <<>>, list |-> list]
       ELSE LET k == IF index.value < 0 THEN Len(list) + index.value + 1
                     ELSE index.value + 1
            IN IF k \notin 1..Len(list)
               THEN [err |-> "IndexError", ret |-> <<>>, list |-> list]
               ELSE [err |-> "none", ret |-> list[k],
                     list |-> SubSeq(list, 1, k - 1) \o SubSeq(list, k + 1, Len(list))]

\* the limits max_len and abbrev_after
Limits == {Item("NoneType", 0)} \cup {Item("int", n) : n \in 0..MaxFlat}

InitContainer ==
    /\ \E gs \in SeqsUpTo({<<>>, <<ePrepX>>, <<e2ZZ, ePrepX>>}, MaxGroups) :
       \E program \in {TestProgram,
                        TestProgram \o <<Instr("RX", "pi/2", 0), Instr("RY", "-pi/2", 1)>>} :
          c_suite = ExperimentSuite_init([k \in 1..Len(gs) |-> Item("list", gs[k])],
                                         program, <<0, 1>>)
    /\ c_op = "new"
    /\ c_arg = Item("NoneType", 0)
    /\ c_ret = <<>>
    /\ c_err = "none"
    /\ MeasureIdle
    /\ GroupIdle
    /\ DataIdle
    /\ ExperimentIdle
    /\ RotationIdle
    /\ WaitIdle

\* c_suite.append(expts) with an Experiment or with a list
SuiteAppend ==
    /\ Len(c_suite.experiments) < MaxFlat
    /\ \/ \E e \in DataPool : c_arg' = Item("Experiment", e)
       \/ \E group \in {<<>>, <<ePrepX>>, <<e2ZZ, ePrepX>>} : c_arg' = Item("list", group)
    /\ c_suite' = ExperimentSuite_append(c_suite, c_arg')
    /\ c_op' = "append"
    /\ c_ret' = <<>>
    /\ c_err' = "none"
    /\ UNCHANGED <<mvars, gvars, dvars, evars, rvars, wvars>>

\* c_suite.pop() and c_suite.pop(index)
SuitePop ==
    /\ c_arg' \in {Item("NoneType", 0), Item("int", -1), Item("int", 0)}
    /\ LET r == ExperimentSuite_pop(c_suite, c_arg')
       IN /\ c_suite' = ExperimentSuite(r.list, c_suite.program, c_suite.qubits)
          /\ c_ret' = r.ret
          /\ c_err' = r.err
    /\ c_op' = "pop"
    /\ UNCHANGED <<mvars, gvars, dvars, evars, rvars, wvars>>

\* _abbrev_program(c_suite.program, max_len)
AbbrevProgram ==
    /\ c_arg' \in Limits
    /\ c_ret' = abbrev_program(c_suite.program, c_arg')
    /\ c_op' = "abbrev"
    /\ c_err' = "none"
    /\ UNCHANGED <<c_suite, mvars, gvars, dvars, evars, rvars, wvars>>

\* c_suite.experiments_string(abbrev_after)
ExperimentsString ==
    /\ c_arg' \in Limits
    /\ c_ret' = experiments_string(c_suite, c_arg')
    /\ c_op' = "experiments_string"
    /\ c_err' = "none"
    /\ UNCHANGED <<c_suite, mvars, gvars, dvars, evars, rvars, wvars>>

\* str(c_suite)
SuiteStr ==
    /\ c_arg' = Item("NoneType", 0)
    /\ c_ret' = abbrev_program(c_suite.program, Item("int", DefaultMaxLen)) \o <<"\n">>
                \o experiments_string(c_suite, Item("int", StrAbbrevAfter))
    /\ c_op' = "str"
    /\ c_err' = "none"
    /\ UNCHANGED <<c_suite, mvars, gvars, dvars, evars, rvars, wvars>>

NextContainer ==
    \/ SuiteAppend
    \/ SuitePop
    \/ AbbrevProgram
    \/ ExperimentsString
    \/ SuiteStr

SpecContainer == InitContainer /\ [][NextContainer]_vars

\* ------------------------------------------------------------------------
\* wait_for_job
\* ------------------------------------------------------------------------
\* ping_time is positive; status_time is a time, or 0 for False
InitWait ==
    /\ ping_time \in 1..MaxTime
    /\ status_time \in 0..MaxTime
    /\ count = 0
    /\ job = "none"
    /\ wpc = "loop"
    /\ printed = 0
    /\ MeasureIdle
    /\ GroupIdle
    /\ DataIdle
    /\ ExperimentIdle
    /\ RotationIdle
    /\ ContainerIdle

\* one turn of the loop: the job fetched is not done, its status is printed
\* when count is a multiple of int(status_time / ping_time) and the job is
\* in one of the four states that are reported, then sleep and count += 1
PollPending ==
    /\ wpc = "loop"
    /\ count < MaxPolls
    /\ job' \in {"queued_for_compilation", "queued", "running", "compiling", "other"}
    /\ status_time # 0 => status_time \div ping_time # 0
    /\ printed' = IF /\ status_time # 0
                     /\ count % (status_time \div ping_time) = 0
                     /\ job' # "other"
                  THEN printed + 1 ELSE printed
    /\ count' = count + 1
    /\ UNCHANGED <<ping_time, status_time, wpc, mvars, gvars, dvars, evars, rvars, cvars>>

\* one turn of the loop: the job fetched is not done and
\* int(status_time / ping_time) is 0: count % 0 raises ZeroDivisionError
PollZeroDivision ==
    /\ wpc = "loop"
    /\ count < MaxPolls
    /\ job' \in {"queued_for_compilation", "queued", "running", "compiling", "other"}
    /\ status_time # 0
    /\ status_time \div ping_time = 0
    /\ wpc' = "failed"
    /\ UNCHANGED <<ping_time, status_time, count, printed,
                   mvars, gvars, dvars, evars, rvars, cvars>>

\* the job fetched is done: break, return job
PollDone ==
    /\ wpc = "loop"
    /\ job' = "done"
    /\ wpc' = "returned"
    /\ UNCHANGED <<ping_time, status_time, count, printed,
                   mvars, gvars, dvars, evars, rvars, cvars>>

NextWait ==
    \/ PollPending
    \/ PollZeroDivision
    \/ PollDone

SpecWait == InitWait /\ [][NextWait]_vars

\* ------------------------------------------------------------------------
\* Properties
\* ------------------------------------------------------------------------
\* two terms agree on every qubit: the same letter, or one of them is I
TPBCompatible(t1, t2) ==
    \A q \in Qubits : t1.ops[q] = t2.ops[q] \/ t1.ops[q] = "I" \/ t2.ops[q] = "I"

PairwiseCompatible(group) ==
    \A a, b \in 1..Len(group) :
        /\ TPBCompatible(group[a].in_operator, group[b].in_operator)
        /\ TPBCompatible(group[a].out_operator, group[b].out_operator)

\* two of the terms carry different non-I letters at the same qubit
Conflict(ops) ==
    \E a, b \in 1..Len(ops) : \E q \in Qubits :
        /\ ops[a].ops[q] # "I"
        /\ ops[b].ops[q] # "I"
        /\ ops[a].ops[q] # ops[b].ops[q]

Count(e, seq) == Cardinality({k \in 1..Len(seq) : seq[k] = e})

Elems(seq) == {seq[k] : k \in 1..Len(seq)}

\* the number of Experiment occurrences in the first k groups of the suite
PrefixLen(k) == Len(Flatten(SubSeq(Groups, 1, k)))

\* a non-identity out_operator with an in_operator coefficient other than 1
BadIn(e) == ~is_identity(e.out_operator) /\ e.in_operator.coefficient # [re |-> 1, im |-> 0]

\* a non-identity out_operator with an imaginary coefficient
BadOut(e) == ~is_identity(e.out_operator) /\ e.out_operator.coefficient.im # 0

\* C1: every group returned by group_experiments for a flat suite is pairwise
\* TPB-compatible, for the in_operators and independently for the
\* out_operators: on every qubit the letters are equal or one of them is I.
C1_GroupsPairwiseCompatible ==
    gpc = "done" =>
        \A k \in 1..Len(grouped.experiments) : PairwiseCompatible(grouped.experiments[k])

\* a grouping of a suite holding I->X0 and I->Z0 that put two distinct
\* Experiments into one group
C1_Witness ==
    /\ gpc = "done"
    /\ {eX0, eZ0} \subseteq Elems(Flatten(suite.experiments))
    /\ \E k \in 1..Len(grouped.experiments) :
          Cardinality(Elems(grouped.experiments[k])) >= 2

\* C2: grouping a flat suite neither loses nor duplicates Experiments: the
\* total count is kept and every Experiment occurs in the output as often as
\* in the input.
C2_GroupingKeepsCounts ==
    gpc = "done" =>
        LET input == Flatten(suite.experiments)
            output == Flatten(grouped.experiments)
        IN /\ Len(output) = Len(input)
           /\ \A e \in ExptPool : Count(e, output) = Count(e, input)

\* a grouping of a suite that holds an Experiment twice, next to others
C2_Witness ==
    /\ gpc = "done"
    /\ \E e \in ExptPool : Count(e, Flatten(suite.experiments)) = 2
    /\ Len(grouped.experiments) >= 2

\* C3: measure_observables yields one result per Experiment occurrence in
\* suite order: what has been delivered is always a prefix of the flattened
\* suite, and all of it once the generator returns without error.
C3_ResultsInSuiteOrder ==
    /\ Len(delivered) <= PrefixLen(Len(Groups))
    /\ delivered = SubSeq(Flatten(Groups), 1, Len(delivered))
    /\ gen = "done" => delivered = Flatten(Groups)

\* a completed run over two groups, one of which holds an Experiment twice
C3_Witness ==
    /\ gen = "done"
    /\ Len(Groups) = 2
    /\ Len(delivered) >= 4
    /\ Count(eZ0, delivered) >= 2

\* C4: the estimator is lazy and cancellable: nothing happens before the
\* first request; the device is called for group k only after all results of
\* the groups before k were delivered and the consumer asked for another;
\* once the consumer stops after a result of group k, no later group has run.
C4_LazyAndCancellable ==
    /\ requests = 0 => calls = <<>> /\ callbacks = <<>> /\ delivered = <<>>
    /\ Len(delivered) <= requests
    /\ \A c \in 1..Len(calls) :
          /\ Len(delivered) >= PrefixLen(calls[c].group)
          /\ requests >= PrefixLen(calls[c].group) + 1
    /\ stopped =>
          \/ gen = "created" /\ calls = <<>>
          \/ /\ gen = "suspended"
             /\ Len(delivered) = PrefixLen(i) + (j - 1)
             /\ \A c \in 1..Len(calls) : calls[c].group <= i

\* the consumer stopped after the last result of the first of two groups:
\* the device ran once
C4_Witness ==
    /\ stopped
    /\ gen = "suspended"
    /\ Len(Groups) = 2
    /\ Groups[2] # <<>>
    /\ i = 0
    /\ j - 1 = Len(Groups[1])
    /\ Len(calls) = 1

\* the groups whose in_operators, out_operators passed the validation
PassedIn == IF pc = "prepare" THEN i ELSE i + 1

PassedOut == IF pc \in {"prepare", "measure"} THEN i ELSE i + 1

\* C5: a group fails the estimator's grouping validation if and only if two
\* of its members carry different non-I letters at one qubit in their
\* in_operators, or (independently) in their out_operators: no conflicting
\* group passes or contributes a result, no other group is rejected.
C5_ValidationIffConflict ==
    /\ \A k \in 1..PassedIn : ~Conflict(in_operators(Groups[k]))
    /\ \A k \in 1..PassedOut : ~Conflict(out_operators(Groups[k]))
    /\ Len(delivered) <= PrefixLen(PassedOut)
    /\ (gen = "failed" /\ err = "grouping" /\ pc = "prepare") =>
          Conflict(in_operators(Groups[i + 1]))
    /\ (gen = "failed" /\ err = "grouping" /\ pc = "measure") =>
          Conflict(out_operators(Groups[i + 1]))

\* the second group is rejected for its out_operators X0 and Z0, which are
\* not adjacent in the group, after the first group delivered results
C5_Witness ==
    /\ gen = "failed"
    /\ err = "grouping"
    /\ pc = "measure"
    /\ i = 1
    /\ Groups[2] = <<eX0, eX1, eZ0>>
    /\ Len(delivered) > 0

\* C6: a group that fails the validation (or the rotation lookup) is aborted
\* before the device is called for it: no run_and_measure, no
\* progress_callback and no result for that group.
C6_AbortBeforeDevice ==
    (gen = "failed" /\ err \in {"grouping", "letter"}) =>
        /\ \A c \in 1..Len(calls) : calls[c].group # i
        /\ \A c \in 1..Len(callbacks) : callbacks[c][1] # i
        /\ Len(delivered) = PrefixLen(i)
        /\ results = <<>>

\* the second group is rejected for its in_operators after the first group
\* ran and was reported to the progress_callback
C6_Witness ==
    /\ gen = "failed"
    /\ err = "grouping"
    /\ pc = "prepare"
    /\ i = 1
    /\ Len(calls) = 1
    /\ Len(callbacks) = 1
    /\ Len(delivered) > 0

\* the number of Experiment occurrences that precede the first group with a
\* conflict or the first Experiment with an invalid coefficient
RECURSIVE SafeLen(_)
SafeLen(groups) ==
    IF groups = <<>> THEN 0
    ELSE LET group == Head(groups)
             bad == {k \in 1..Len(group) : BadIn(group[k]) \/ BadOut(group[k])}
         IN IF Conflict(in_operators(group)) \/ Conflict(out_operators(group)) THEN 0
            ELSE IF bad # {} THEN (CHOOSE k \in bad : \A m \in bad : k <= m) - 1
            ELSE Len(group) + SafeLen(Tail(groups))

\* the results produced when the generator stands at (i, pc, j)
FailPoint == PrefixLen(i) + (IF pc = "post" THEN j - 1 ELSE 0)

\* C7: a fatal condition ends the sequence where it is produced: the results
\* delivered are exactly those of the occurrences before the failing point,
\* nothing is delivered afterwards, and the device is not called again: each
\* group up to the failing one was run once, also after a further next().
C7_AbortAtPointOfProduction ==
    /\ Len(delivered) <= SafeLen(Groups)
    /\ gen = "failed" =>
          /\ delivered = SubSeq(Flatten(Groups), 1, FailPoint)
          /\ err # "device" => Len(delivered) = SafeLen(Groups)
          /\ Len(calls) = PassedOut
          /\ \A c \in 1..Len(calls) : calls[c].group = c - 1

\* the device failed for the second group, the consumer asked again
C7_Witness ==
    /\ gen = "failed"
    /\ err = "device"
    /\ retried
    /\ i = 1
    /\ Len(calls) = 2
    /\ Len(delivered) > 0

\* C8: one execution per group: the calls are the groups in suite order,
\* each with the given n_shots, len(suite) of them for a completed run; the
\* results of a group all come from the bits of its one call, so equal
\* Experiments of a group get equal results.
C8_OneExecutionPerGroup ==
    /\ \A c \in 1..Len(calls) : calls[c].group = c - 1 /\ calls[c].n_shots = n_shots
    /\ gen = "done" => Len(calls) = Len(Groups)
    /\ pc = "post" =>
          /\ \A r \in 1..Len(results) :
                results[r] = PostProcess(Groups[i + 1][r], bitstrings, n_shots).result
          /\ \A a, b \in 1..Len(results) :
                results[a].experiment = results[b].experiment => results[a] = results[b]

\* a completed run of two groups, the last holding I->Z0 twice, measured -1
C8_Witness ==
    /\ gen = "done"
    /\ Len(Groups) = 2
    /\ Len(calls) = 2
    /\ Len(results) = 3
    /\ results[1].experiment = eZ0
    /\ results[3].experiment = eZ0
    /\ results[1].expectation = <<-1, 1>>

\* C9: an Experiment with an identity out_operator is reported with
\* expectation 1.0 and stddev 0.0, whatever the device returned.
C9_IdentityIsPerfect ==
    \A r \in 1..Len(results) :
        is_identity(results[r].experiment.out_operator) =>
            results[r].expectation = <<1, 1>> /\ results[r].stddev_sq = <<0, 1>>

\* the result of I -> 2*I from a group whose bits were not all 0
C9_Witness ==
    /\ Len(results) >= 1
    /\ results[1].experiment = eId2
    /\ \A q \in Qubits : bitstrings[q][1] = 1

\* C10: for a non-identity out_operator the estimator requires an
\* in_operator coefficient of 1 and a real out_operator coefficient: such an
\* Experiment is never given a result, a run that completes held none, and
\* the run fails at it with the error of the violated requirement.
C10_CoefficientsRequired ==
    /\ \A d \in 1..Len(delivered) : ~BadIn(delivered[d]) /\ ~BadOut(delivered[d])
    /\ gen = "done" => \A e \in Elems(Flatten(Groups)) : ~BadIn(e) /\ ~BadOut(e)
    /\ (gen = "failed" /\ pc = "post") =>
          /\ err \in {"in_coefficient", "complex_coefficient"}
          /\ err = "in_coefficient" <=> BadIn(Groups[i + 1][j])
          /\ err = "complex_coefficient" =>
                BadOut(Groups[i + 1][j]) /\ ~BadIn(Groups[i + 1][j])
    /\ (gen = "failed" /\ err \in {"in_coefficient", "complex_coefficient"}) =>
          pc = "post"

\* the run failed at 2*X0 -> Z0 after 2*X0 -> I was given its result
C10_Witness ==
    /\ gen = "failed"
    /\ err = "in_coefficient"
    /\ Groups[i + 1][j] = eBadIn
    /\ Len(results) = 2
    /\ results[2].experiment = eBadInId

\* C11: a supplied progress_callback is invoked once for every group whose
\* device call returned, with (i, len(suite)) for i = 0, 1, ... in this
\* order; the invocation for group i follows the return of its device call
\* and precedes every result of group i; a group whose device call did not
\* happen or did not return gets no invocation, and without a callback
\* nothing is invoked.
C11_CallbackOncePerExecutedGroup ==
    /\ ~progress_callback => callbacks = <<>>
    /\ progress_callback =>
          /\ \A c \in 1..Len(callbacks) : callbacks[c] = <<c - 1, Len(Groups)>>
          /\ Len(callbacks) =
                Len(calls) - (IF err = "device" \/ pc = "callback" THEN 1 ELSE 0)
          /\ Len(delivered) <= PrefixLen(Len(callbacks))
          /\ gen = "done" => Len(callbacks) = Len(Groups)

\* the device failed on the second group after the first group's callback
\* and results: one invocation for two calls
C11_Witness ==
    /\ progress_callback
    /\ err = "device"
    /\ Len(calls) = 2
    /\ callbacks = <<<<0, 2>>>>
    /\ Len(delivered) > 0

\* C12: group_experiments never changes its argument (groups, their order,
\* program and qubit list stay as they were at the call), and the suite it
\* returns is a separate value carrying the argument's program and qubits.
C12_InputKeptProgramAndQubitsCarried ==
    /\ [][suite' = suite]_vars
    /\ [](gpc = "done" =>
            /\ grouped.program = suite.program
            /\ grouped.qubits = suite.qubits)

\* three singleton groups were merged into one group of three; the
\* argument still has its three groups
C12_Witness ==
    /\ gpc = "done"
    /\ Len(suite.experiments) = 3
    /\ Len(grouped.experiments) = 1
    /\ Len(grouped.experiments[1]) = 3
    /\ grouped.program = AnsatzProgram
    /\ grouped.qubits = <<0, 1>>

\* the Experiments of V whose out_operator has a letter on both qubits
BothQubits(V) == {e \in V : get_qubits(e.out_operator) = Qubits}

\* C13: the 16 Experiments I -> o1 * o2 (o1 over I, X, Y, Z on qubit 0, o2
\* over I, X, Y, Z on qubit 1) end in exactly 9 cliques, hence 9 groups,
\* whichever clique is extracted at each step: every clique extracted takes
\* exactly one of the nine Experiments with a letter on both qubits.
C13_SixteenGiveNineGroups ==
    /\ Len(suite.experiments) = 16
    /\ gpc = "removal" =>
          Len(cliqs) + Cardinality(BothQubits(graph \ c_i)) = 9
    /\ (gpc = "removal" /\ graph = {}) => Len(cliqs) = 9

\* clique_removal ended with 9 cliques, one of them a single Experiment
C13_Witness ==
    /\ gpc = "removal"
    /\ graph = {}
    /\ Len(cliqs) = 9
    /\ Cardinality(g.nodes) = 16
    /\ \E k \in 1..Len(cliqs) : Cardinality(cliqs[k]) = 1

\* C14: when the graph was built from the flat suite of I->X0, I->X1, I->Z0,
\* I->Z1 (each once, in any order), group_experiments returns exactly 2
\* groups and the argument still has its 4 groups, whichever clique is
\* extracted first.
C14_FourSingleQubitGiveTwoGroups ==
    (/\ gpc = "done"
     /\ g.nodes = {eX0, eX1, eZ0, eZ1}
     /\ \A expt \in g.nodes : g.count[expt] = 1)
    => /\ Len(grouped.experiments) = 2
       /\ Len(suite.experiments) = 4
       /\ Elems(Flatten(suite.experiments)) = {eX0, eX1, eZ0, eZ1}

\* the suite of test_group_experiments grouped with the Z clique first
C14_Witness ==
    /\ gpc = "done"
    /\ suite.experiments = <<<<eX0>>, <<eX1>>, <<eZ0>>, <<eZ1>>>>
    /\ Len(grouped.experiments) = 2
    /\ Elems(grouped.experiments[1]) = {eZ0, eZ1}
    /\ Elems(grouped.experiments[2]) = {eX0, eX1}

\* the qubits an Experiment acts on, in preparation or in measurement
Support(e) == get_qubits(e.in_operator) \cup get_qubits(e.out_operator)

\* C15: a flat suite of two distinct Experiments that act on disjoint qubits
\* is grouped into a single group that contains both.
C15_DisjointQubitsShareAGroup ==
    (/\ gpc = "done"
     /\ Len(suite.experiments) = 2
     /\ suite.experiments[1][1] # suite.experiments[2][1]
     /\ Support(suite.experiments[1][1]) \cap Support(suite.experiments[2][1]) = {})
    => /\ Len(grouped.experiments) = 1
       /\ Len(grouped.experiments[1]) = 2
       /\ Elems(grouped.experiments[1]) = Elems(Flatten(suite.experiments))

\* I->X0 and I->X1 ended in one group
C15_Witness ==
    /\ gpc = "done"
    /\ suite.experiments = <<<<eX0>>, <<eX1>>>>
    /\ Len(grouped.experiments) = 1
    /\ Elems(grouped.experiments[1]) = {eX0, eX1}

\* C16: str(e) is '<in.compact_str()><arrow><out.compact_str()>' and equals
\* e.serializable(); Experiment.from_str(str(e)) succeeds and gives an
\* Experiment equal to e, with equal in_operator (the identity included) and
\* equal out_operator.
C16_ExperimentStringRoundTrip ==
    /\ epc \in {"str", "parsed"} =>
          /\ e_str = compact_str(e1.in_operator) \o <<Arrow>>
                            \o compact_str(e1.out_operator)
          /\ e_str = ExperimentSerializable(e1)
    /\ epc # "failed"
    /\ epc = "parsed" =>
          /\ e2 = e1
          /\ e2.in_operator = e1.in_operator
          /\ e2.out_operator = e1.out_operator

\* I -> (1-2j)*X0*Z1 went through its string and came back
C16_Witness ==
    /\ epc = "parsed"
    /\ e1.in_operator = sI
    /\ e1.out_operator = Scaled(1, -2, Times(X0, Z1))
    /\ e_str = <<"(", "1", "+", "0", "j", ")", "*", "I", Arrow,
                    "(", "1", "-", "2", "j", ")", "*", "X", "0", "Z", "1">>
    /\ e2 = e1

\* C17: read_json(to_json(s)) succeeds and gives a suite equal to s: the
\* same groups in the same order, the same program text and the same
\* qubits; empty suites, empty groups and suites of several groups of
\* several Experiments included.
C17_SuiteJsonRoundTrip ==
    /\ dpc # "failed"
    /\ dpc = "read" =>
          /\ SuiteEq(s2, s)
          /\ s2.experiments = s.experiments
          /\ ProgramOut(s2.program) = ProgramOut(s.program)
          /\ s2.qubits = s.qubits

\* a suite of two groups of two Experiments was written and read back
C17_Witness ==
    /\ dpc = "read"
    /\ s.experiments = <<<<ePrepX, e2ZZ>>, <<e2ZZ, ePrepX>>>>
    /\ s.program = TestProgram
    /\ doc.program = <<<<"X", " ", "0">>, <<"Y", " ", "1">>>>
    /\ s2 = s

\* the argument is a flat list of Experiments
IsFlat(experiments) ==
    \A k \in 1..Len(experiments) : experiments[k].isinstance = "Experiment"

\* C18: a flat list of n Experiments becomes n groups of length 1 in the
\* same order, a list of groups is kept as given, an empty list gives zero
\* groups; len(suite) is the number of groups and iteration yields the
\* groups in order.
C18_SuiteConstruction ==
    dpc # "args" =>
       /\ Len(args.experiments) = 0 => s.experiments = <<>>
       /\ \A k \in 1..Len(args.experiments) :
             s.experiments[k] = IF IsFlat(args.experiments)
                                THEN <<args.experiments[k].value>>
                                ELSE args.experiments[k].value
       /\ SuiteLen(s) = Len(args.experiments)
       /\ SuiteLen(s) = Len(s.experiments)
       /\ SuiteIter(s) = s.experiments
       /\ s.program = args.program
       /\ s.qubits = args.qubits

\* a flat list of two Experiments became two groups of length 1
C18_Witness ==
    /\ dpc = "built"
    /\ args.experiments = <<Item("Experiment", ePrepX), Item("Experiment", e2ZZ)>>
    /\ s.experiments = <<<<ePrepX>>, <<e2ZZ>>>>
    /\ SuiteLen(s) = 2

\* the program of one gate, and the outcomes of a lookup
OneGate(gate, angle, q) == [ok |-> TRUE, prog |-> <<Instr(gate, angle, q)>>]

NoGate == [ok |-> TRUE, prog |-> <<>>]

Resolved(ops, q) ==
    IF \E k \in 1..Len(ops) : ops[k].ops[q] # "I"
    THEN ops[CHOOSE k \in 1..Len(ops) : ops[k].ops[q] # "I"].ops[q]
    ELSE "I"

\* the gates the claimed lookup gives for the terms: one per qubit resolved
\* to X or Y, none for Z and I
PrepGates(ops) ==
    {Instr("RY", "+pi/2", q) : q \in {p \in Qubits : Resolved(ops, p) = "X"}}
    \cup {Instr("RX", "-pi/2", q) : q \in {p \in Qubits : Resolved(ops, p) = "Y"}}

MeasGates(ops) ==
    {Instr("RY", "-pi/2", q) : q \in {p \in Qubits : Resolved(ops, p) = "X"}}
    \cup {Instr("RX", "+pi/2", q) : q \in {p \in Qubits : Resolved(ops, p) = "Y"}}

\* the part is made of the gates, each once, at most one per qubit
OncePerQubit(part, gates) ==
    /\ Len(part) = Cardinality(gates)
    /\ \A a \in 1..Len(part) :
          /\ part[a] \in gates
          /\ \A b \in 1..Len(part) : part[a].qubit = part[b].qubit => a = b

\* C20: the program handed to the device for a group is, in this order: the
\* active-reset instruction iff active_reset is set; the preparation
\* rotations, one for each qubit of the in-mapping (no gate for Z); the
\* ansatz program as the suite holds it; the measurement rotations, one for
\* each qubit of the out-mapping (no gate for Z). No qubit gets two
\* preparation or two measurement rotations, and the suite's program stays
\* what it was.
C20_ProgramOrder ==
    /\ experiment_suite.program = AnsatzProgram
    /\ \A c \in 1..Len(calls) :
          LET p == calls[c].program
              group == Groups[c]
              n_reset == IF active_reset THEN 1 ELSE 0
              prep_gates == PrepGates(in_operators(group))
              n_prep == Cardinality(prep_gates)
              n_ansatz == Len(experiment_suite.program)
          IN /\ active_reset => p[1] = Instr("RESET", "none", -1)
             /\ \A k \in 1..Len(p) : p[k].gate = "RESET" => (k = 1 /\ active_reset)
             /\ OncePerQubit(SubSeq(p, n_reset + 1, n_reset + n_prep), prep_gates)
             /\ SubSeq(p, n_reset + n_prep + 1, n_reset + n_prep + n_ansatz)
                   = experiment_suite.program
             /\ OncePerQubit(SubSeq(p, n_reset + n_prep + n_ansatz + 1, Len(p)),
                             MeasGates(out_operators(group)))

\* with active_reset a group prepared in X on qubit 0 and measured in Z was
\* run as RESET, RY(+pi/2) 0, ansatz
C20_Witness ==
    /\ active_reset
    /\ Len(calls) = 1
    /\ calls[1].program = <<Instr("RESET", "none", -1), Instr("RY", "+pi/2", 0)>>
                              \o AnsatzProgram
    /\ experiment_suite.program = AnsatzProgram

\* the result delivered last and its Experiment's real coefficient
LastResult == results[Len(results)]

LastCoeff == LastResult.experiment.out_operator.coefficient.re

\* the shots with an odd number of 1-bits among the qubits of the term
OddShots(term) ==
    {sh \in 1..n_shots :
        Cardinality({q \in get_qubits(term) : bitstrings[q][sh] = 1}) % 2 = 1}

\* the value of one shot: +c for even parity, -c for odd parity
ShotValue(term, c, sh) == IF sh \in OddShots(term) THEN -c ELSE c

\* C21: for a delivered result of an Experiment with a non-identity
\* out_operator of real coefficient c, the value of a shot is +c when the
\* number of 1-bits among the qubits of the out_operator is even and -c when
\* it is odd, whatever the other qubits measured, and the expectation is
\* their mean: n_shots * expectation = c * (#even shots - #odd shots).
C21_ExpectationIsParityMean ==
    (/\ gen = "suspended"
     /\ results # <<>>
     /\ ~is_identity(LastResult.experiment.out_operator))
    => LET odd == Cardinality(OddShots(LastResult.experiment.out_operator))
       IN LastResult.expectation = Frac(LastCoeff * ((n_shots - odd) - odd), n_shots)

\* I -> 2*Z0*Z1 measured with two shots, one of each parity, the odd one
\* with both bits differing: expectation 0
C21_Witness ==
    /\ gen = "suspended"
    /\ results # <<>>
    /\ LastResult.experiment = e2ZZ
    /\ n_shots = 2
    /\ Cardinality(OddShots(e2ZZ.out_operator)) = 1
    /\ LastResult.expectation = <<0, 1>>

\* the sums of the shot values and of their squares
ValueSum(term, c) == SumTo([sh \in 1..n_shots |-> ShotValue(term, c, sh)], n_shots)

ValueSqSum(term, c) ==
    SumTo([sh \in 1..n_shots |-> ShotValue(term, c, sh) * ShotValue(term, c, sh)], n_shots)

\* C22 as stated, the sample variance taken with Bessel's correction:
\* stddev^2 * n_shots = sum((x - mean)^2) / (n_shots - 1), for n_shots >= 2.
C22_StddevFromSampleVariance ==
    (/\ gen = "suspended"
     /\ results # <<>>
     /\ n_shots >= 2
     /\ ~is_identity(LastResult.experiment.out_operator))
    => LET term == LastResult.experiment.out_operator
           total == ValueSum(term, LastCoeff)
           totalsq == ValueSqSum(term, LastCoeff)
       IN LastResult.stddev_sq =
             Frac(n_shots * totalsq - total * total, n_shots * n_shots * (n_shots - 1))

\* C22: stddev^2 * n_shots is the variance of the per-shot values with
\* divisor n_shots (np.var, ddof = 0): sum((x - mean)^2) / n_shots; stddev
\* is 0 when every shot gives the same value.
C22_StddevFromPopulationVariance ==
    (/\ gen = "suspended"
     /\ results # <<>>
     /\ ~is_identity(LastResult.experiment.out_operator))
    => LET term == LastResult.experiment.out_operator
           total == ValueSum(term, LastCoeff)
           totalsq == ValueSqSum(term, LastCoeff)
           odd == Cardinality(OddShots(term))
       IN /\ LastResult.stddev_sq =
                Frac(n_shots * totalsq - total * total, n_shots * n_shots * n_shots)
          /\ odd \in {0, n_shots} => LastResult.stddev_sq = <<0, 1>>

\* I -> Z0 measured 0 and 1 in two shots: values +1 and -1, variance 1
\* with divisor 2, stddev^2 = 1/2
C22_Witness ==
    /\ gen = "suspended"
    /\ results # <<>>
    /\ LastResult.experiment = eZ0
    /\ n_shots = 2
    /\ Cardinality(OddShots(Z0)) = 1
    /\ LastResult.stddev_sq = <<1, 2>>

\* the sum of the count attributes of the nodes in V
RECURSIVE CountSum(_)
CountSum(V) ==
    IF V = {} THEN 0
    ELSE LET n == CHOOSE n \in V : TRUE IN g.count[n] + CountSum(V \ {n})

\* C23: the graph built from a flat suite has exactly one node per distinct
\* Experiment, the count of a node is the number of occurrences of its
\* Experiment (the counts sum to len(suite)), there is no self-loop, and
\* two distinct nodes are joined if and only if their in_operators and
\* their out_operators are compatible on every qubit: letters equal or one
\* of them I.
C23_GraphOfFlatSuite ==
    gpc \in {"ramsey", "removal", "done"}
    => LET flat == Flatten(suite.experiments)
       IN /\ g.nodes = Elems(flat)
          /\ \A n \in g.nodes : g.count[n] = Count(n, flat)
          /\ CountSum(g.nodes) = Len(suite.experiments)
          /\ \A ed \in g.edges : Cardinality(ed) = 2 /\ ed \subseteq g.nodes
          /\ \A a, b \in g.nodes :
                a # b => ({a, b} \in g.edges
                          <=> /\ TPBCompatible(a.in_operator, b.in_operator)
                              /\ TPBCompatible(a.out_operator, b.out_operator))

\* a suite with a repeated Experiment, a compatible pair and an
\* incompatible pair: three nodes, one of count 2, one edge present and
\* one absent
C23_Witness ==
    /\ gpc = "ramsey"
    /\ Len(suite.experiments) = 4
    /\ Cardinality(g.nodes) = 3
    /\ \E n \in g.nodes : g.count[n] = 2
    /\ \E a, b \in g.nodes : a # b /\ {a, b} \in g.edges
    /\ \E a, b \in g.nodes : a # b /\ {a, b} \notin g.edges

\* C24: append(x) adds exactly one group at the end, a bare Experiment
\* wrapped into a group of one and a list added as one group, and leaves
\* the earlier groups unchanged; pop() without an index on a non-empty suite
\* removes and returns the last group; len(suite) is the number of groups
\* held after every call.
C24_AppendAndPopActOnGroups ==
    [][/\ c_op' = "append"
          => /\ Len(c_suite'.experiments) = Len(c_suite.experiments) + 1
             /\ SubSeq(c_suite'.experiments, 1, Len(c_suite.experiments))
                   = c_suite.experiments
             /\ c_arg'.isinstance = "Experiment"
                   => c_suite'.experiments[Len(c_suite'.experiments)] = <<c_arg'.value>>
             /\ c_arg'.isinstance = "list"
                   => c_suite'.experiments[Len(c_suite'.experiments)] = c_arg'.value
       /\ (/\ c_op' = "pop"
           /\ c_arg'.isinstance = "NoneType"
           /\ Len(c_suite.experiments) > 0)
          => /\ c_err' = "none"
             /\ c_ret' = c_suite.experiments[Len(c_suite.experiments)]
             /\ c_suite'.experiments
                   = SubSeq(c_suite.experiments, 1, Len(c_suite.experiments) - 1)
       /\ SuiteLen(c_suite') = Len(SuiteIter(c_suite'))]_vars

\* C24 for append and len alone
C24_AppendAddsOneGroup ==
    [][/\ c_op' = "append"
          => /\ Len(c_suite'.experiments) = Len(c_suite.experiments) + 1
             /\ SubSeq(c_suite'.experiments, 1, Len(c_suite.experiments))
                   = c_suite.experiments
             /\ c_arg'.isinstance = "Experiment"
                   => c_suite'.experiments[Len(c_suite'.experiments)] = <<c_arg'.value>>
             /\ c_arg'.isinstance = "list"
                   => c_suite'.experiments[Len(c_suite'.experiments)] = c_arg'.value
       /\ SuiteLen(c_suite') = Len(SuiteIter(c_suite'))]_vars

\* the entries of a rendering: the parts between the separators
Parts(text, sep) == IF text = <<>> THEN <<>> ELSE Split(text, sep)

\* a rendering of `entries` under limit L: when there are more than L, the
\* first floor(L/2), the marker lines, and the last L - floor(L/2);
\* otherwise all of them
Abbreviated(parts, entries, L, markers) ==
    IF L.isinstance = "int" /\ Len(entries) > L.value
    THEN LET first == L.value \div 2
             last == L.value - first
         IN /\ Len(parts) = L.value + Len(markers)
            /\ SubSeq(parts, 1, first) = SubSeq(entries, 1, first)
            /\ SubSeq(parts, first + 1, first + Len(markers)) = markers
            /\ SubSeq(parts, first + Len(markers) + 1, Len(parts))
                  = SubSeq(entries, Len(entries) - last + 1, Len(entries))
    ELSE parts = entries

\* C25: for every limit L and n entries, when n > L the rendering shows the
\* first floor(L/2) entries, a marker reporting n - L omitted entries and
\* the last L - floor(L/2) entries; when n <= L or L is None every entry is
\* shown without a marker; rendering never changes the suite.
C25_AbbreviatedRendering ==
    [][/\ c_op' \in {"abbrev", "experiments_string", "str"} => c_suite' = c_suite
       /\ c_op' = "abbrev"
          => LET lines == ProgramOut(c_suite.program)
             IN Abbreviated(Parts(c_ret', "; "), lines, c_arg',
                            << <<"... ">> \o IntStr(Len(lines) - c_arg'.value)
                                \o <<" instrs not shown ...">> >>)
       /\ c_op' = "experiments_string"
          => LET lines == experiment_strings(c_suite)
             IN Abbreviated(Parts(c_ret', "\n"), lines, c_arg',
                            << <<"... ">> \o IntStr(Len(lines) - c_arg'.value)
                                \o <<" not shown ...">>,
                               <<"... use e.experiments_string() for all ...">> >>)]_vars

\* C25 for the limits of 1 and more
C25_AbbreviatedRenderingPositiveLimit ==
    [][(c_arg'.isinstance = "int" => c_arg'.value >= 1)
       => /\ c_op' = "abbrev"
             => LET lines == ProgramOut(c_suite.program)
                IN Abbreviated(Parts(c_ret', "; "), lines, c_arg',
                               << <<"... ">> \o IntStr(Len(lines) - c_arg'.value)
                                   \o <<" instrs not shown ...">> >>)
          /\ c_op' = "experiments_string"
             => LET lines == experiment_strings(c_suite)
                IN Abbreviated(Parts(c_ret', "\n"), lines, c_arg',
                               << <<"... ">> \o IntStr(Len(lines) - c_arg'.value)
                                   \o <<" not shown ...">>,
                                  <<"... use e.experiments_string() for all ...">> >>)]_vars

\* C26: wait_for_job returns only a job that is done, the one fetched last,
\* and never fails on its own, for any positive ping_time and any
\* status_time.
C26_WaitReturnsDoneJobAndNeverFails ==
    /\ wpc = "returned" => job = "done"
    /\ wpc = "loop" => job # "done"
    /\ wpc # "failed"

\* C26 without the claim that the call never fails
C26_WaitReturnsDoneJob ==
    /\ wpc = "returned" => job = "done"
    /\ wpc = "loop" => job # "done"

\* the groups of the returned suite that hold the Experiment e
GroupsWith(e) ==
    {k \in 1..Len(grouped.experiments) : e \in Elems(grouped.experiments[k])}

\* every distinct Experiment of the input is in exactly one returned group,
\* with all of its copies
Partitioned ==
    \A e \in Elems(Flatten(suite.experiments)) :
        /\ Cardinality(GroupsWith(e)) = 1
        /\ \A k \in GroupsWith(e) :
              Count(e, grouped.experiments[k]) = Count(e, Flatten(suite.experiments))

\* C27: the returned groups partition the distinct Experiments of the
\* input, all copies of an Experiment sit in its one group, no returned
\* group is empty, and an empty suite gives a suite of zero groups.
C27_GroupsPartitionTheInput ==
    gpc = "done"
    => /\ Partitioned
       /\ \A k \in 1..Len(grouped.experiments) : grouped.experiments[k] # <<>>
       /\ suite.experiments = <<>> => grouped.experiments = <<>>

\* C27 for the suites that hold an Experiment
C27_GroupsPartitionNonEmptyInput ==
    (gpc = "done" /\ suite.experiments # <<>>)
    => /\ Partitioned
       /\ \A k \in 1..Len(grouped.experiments) : grouped.experiments[k] # <<>>

\* the estimator's validation accepts the group for both operators
Validates(group) ==
    /\ validate_all_diagonal_in_tpb(in_operators(group)).ok
    /\ validate_all_diagonal_in_tpb(out_operators(group)).ok

\* C28: every group returned by group_experiments for a flat suite passes
\* the estimator's validation of the in_operators and of the out_operators;
\* and a list of Experiments passes the grouper's edge test pairwise exactly
\* when it passes that validation.
C28_GrouperAndEstimatorAgree ==
    /\ gpc = "done"
       => \A k \in 1..Len(grouped.experiments) : Validates(grouped.experiments[k])
    /\ gpc = "start"
       => LET group == Flatten(suite.experiments)
          IN (\A a, b \in 1..Len(group) : EdgeTest(group[a], group[b]))
             <=> Validates(group)

\* a suite with incompatible Experiments returned in several groups, one of
\* them holding two distinct Experiments
C28_Witness ==
    /\ gpc = "done"
    /\ ~Validates(Flatten(suite.experiments))
    /\ Len(grouped.experiments) >= 2
    /\ \E k \in 1..Len(grouped.experiments) :
          /\ Cardinality(Elems(grouped.experiments[k])) >= 2
          /\ Validates(grouped.experiments[k])

\* the distinct Experiments of the input
Distinct == Elems(Flatten(suite.experiments))

\* two distinct Experiments of the input are compatible on both operators
SomeCompatiblePair ==
    \E a, b \in Distinct :
        /\ a # b
        /\ TPBCompatible(a.in_operator, b.in_operator)
        /\ TPBCompatible(a.out_operator, b.out_operator)

\* C29: group_experiments never returns more groups than the input has
\* distinct Experiments, and returns strictly fewer when two distinct
\* Experiments of the input are compatible on both operators.
C29_GroupCountBound ==
    gpc = "done"
    => /\ Len(grouped.experiments) <= Cardinality(Distinct)
       /\ SomeCompatiblePair => Len(grouped.experiments) < Cardinality(Distinct)

\* C29 for the suites that hold an Experiment
C29_GroupCountBoundNonEmptyInput ==
    (gpc = "done" /\ suite.experiments # <<>>)
    => /\ Len(grouped.experiments) <= Cardinality(Distinct)
       /\ SomeCompatiblePair => Len(grouped.experiments) < Cardinality(Distinct)

\* some group of the input does not hold exactly one Experiment
SomeGroupNotSingle == \E k \in 1..Len(suite.experiments) : Len(suite.experiments[k]) # 1

\* C30: when some group of the input does not hold exactly one Experiment
\* the call fails on the assertion before any clique is computed, returns
\* no suite and leaves the input as it was; an input of groups of one
\* never fails.
C30_OnlyUngroupedInputAccepted ==
    /\ [][suite' = suite]_vars
    /\ []((gpc # "start" /\ SomeGroupNotSingle)
          => /\ gpc = "failed"
             /\ cliqs = <<>>
             /\ c_i = {}
             /\ grouped = NoSuite)
    /\ [](~SomeGroupNotSingle => gpc # "failed")

\* the call on a suite whose first group holds two Experiments has failed
C30_Witness ==
    /\ gpc = "failed"
    /\ Len(suite.experiments) = 2
    /\ Len(suite.experiments[1]) = 2
    /\ grouped = NoSuite

====
